---- MODULE Spec2Model ----
(***************************************************************************)
(* State-machine model of the authoritative DNS server: the in-memory      *)
(* domain registry (DomainManager), the PostgreSQL store (Database), the   *)
(* verifier and reload loops and the admin operations (DnsServer), and the *)
(* UDP responder (CybertempHandler).                                       *)
(*                                                                         *)
(* Strings the code computes on (domain names, nameserver names) are       *)
(* sequences of one-character strings, so that to_lowercase, contains and  *)
(* starts_with are computed.  Time is in hours.  Option<T> is <<>> for     *)
(* None and <<v>> for Some(v).                                             *)
(***************************************************************************)
EXTENDS Integers, Sequences, FiniteSets, TLC

(***************************************************************************)
(* Bounds of the model.                                                    *)
(***************************************************************************)
\* The clock advances MaxTime times, by ClockStep hours each time.
MaxTime == 2
ClockStep == 48

(***************************************************************************)
(* Option<T>.                                                              *)
(***************************************************************************)
None == <<>>
Some(v) == <<v>>

(***************************************************************************)
(* Strings.                                                                *)
(***************************************************************************)
\* char::to_lowercase on the letters the model's names use.
to_lowercase_char(c) ==
    CASE c = "A" -> "a"
      [] c = "B" -> "b"
      [] c = "T" -> "t"
      [] OTHER -> c

\* str::to_lowercase: every character lowered, nothing trimmed or removed.
to_lowercase(s) == [i \in DOMAIN s |-> to_lowercase_char(s[i])]

\* str::contains
contains(s, sub) ==
    \E i \in 0..(Len(s) - Len(sub)) : SubSeq(s, i + 1, i + Len(sub)) = sub

\* The names admin callers use: "a.t" and its upper-case spelling "A.T".
Name_a == <<"a", ".", "t">>
Name_A == <<"A", ".", "T">>
InputNames == {Name_a, Name_A}

\* The same names written fully qualified, "a.t." and "A.T.".
Fqdn_a == <<"a", ".", "t", ".">>
Fqdn_A == <<"A", ".", "T", ".">>
FqdnNames == {Fqdn_a, Fqdn_A}

\* The IP an admin caller gives.
InputIps == {"9.9.9.9"}

\* A name that contains "discord", and the spellings the registry's callers
\* use where the spelling matters.
Name_discord == <<"d", "i", "s", "c", "o", "r", "d", ".", "t">>
SpelledNames == {Name_a, Name_A, Fqdn_a, Name_discord}

\* The mail IPs the code hard-wires.
DiscordMailIp == "37.114.41.81"
DefaultMailIp == "45.134.39.50"

\* let our_ns = vec!["ns1.cybertemp.xyz", "ns2.cybertemp.xyz"]
our_ns ==
    << <<"n", "s", "1", ".", "c", "y", "b", "e", "r", "t", "e", "m", "p", ".", "x", "y", "z">>,
       <<"n", "s", "2", ".", "c", "y", "b", "e", "r", "t", "e", "m", "p", ".", "x", "y", "z">> >>

\* current_ns.iter().any(|ns| our_ns.iter().any(|our_ns| ns.contains(our_ns)))
has_our_ns(current_ns) ==
    \E i \in DOMAIN current_ns : \E j \in DOMAIN our_ns :
        contains(current_ns[i], our_ns[j])

(***************************************************************************)
(* The outbound NS lookup: resolver.lookup(domain, RecordType::NS).        *)
(* Ok(list of NS names, as Name::to_string prints them: with the trailing  *)
(* dot) or Err.                                                            *)
(***************************************************************************)
OursReply ==
    << <<"n", "s", "1", ".", "c", "y", "b", "e", "r", "t", "e", "m", "p", ".", "x", "y", "z", ".">>,
       <<"n", "s", "2", ".", "c", "y", "b", "e", "r", "t", "e", "m", "p", ".", "x", "y", "z", ".">> >>
OtherReply ==
    << <<"n", "s", "1", ".", "o", "t", "h", "e", "r", ".", "n", "e", "t", ".">> >>

LookupOk(ns) == [is_ok |-> TRUE, ns |-> ns]
LookupErr == [is_ok |-> FALSE, ns |-> <<>>]
LookupResults == {LookupOk(OursReply), LookupOk(OtherReply), LookupErr}

\* How a lookup result reads as an input of the verifier's state machine.
Outcome(lookup) ==
    IF ~lookup.is_ok THEN "error"
    ELSE IF has_our_ns(lookup.ns) THEN "ok" ELSE "notok"

(***************************************************************************)
(* Configuration (DnsConfig).  Only grace_period_hours varies.             *)
(***************************************************************************)
GracePeriodHoursValues == {24, 48}

\* DomainManager::new: grace_period: Duration::from_secs(48 * 3600), in hours.
grace_period == 48

(***************************************************************************)
(* The store: table domains, one row per (lower-case) domain.  A row keeps *)
(* the columns the registry reads or the code writes; id, mail_server,     *)
(* mx_priority, description, tags and the audit timestamps created_at and  *)
(* updated_at are never read by the code modelled here.                    *)
(***************************************************************************)
\* The column defaults of a row INSERTed with (domain, ip_address, discord)
\* only.  The table's DDL is not among the source files.
NewRow(ip_address, discord) ==
    [ip_address |-> ip_address, discord |-> discord, enabled |-> TRUE,
     verified |-> FALSE, last_verified |-> None, nameservers |-> None]

\* A variant of Database::add_domain whose INSERT leaves discord to its
\* default (false) and whose ON CONFLICT branch alone writes it.
Database_add_domain_late_discord(store, domain, ip_address, discord) ==
    LET key == to_lowercase(domain) IN
    IF key \in DOMAIN store
    THEN [store EXCEPT ![key].ip_address = ip_address, ![key].discord = discord]
    ELSE [k \in DOMAIN store \cup {key} |->
            IF k = key THEN NewRow(ip_address, FALSE) ELSE store[k]]

\* A variant of Database::add_domain whose ON CONFLICT branch also sets
\* enabled = true.
Database_add_domain_enabling(store, domain, ip_address, discord) ==
    LET key == to_lowercase(domain) IN
    IF key \in DOMAIN store
    THEN [store EXCEPT ![key].ip_address = ip_address, ![key].discord = discord,
                       ![key].enabled = TRUE]
    ELSE [k \in DOMAIN store \cup {key} |->
            IF k = key THEN NewRow(ip_address, discord) ELSE store[k]]

\* Database::add_domain: INSERT ... ON CONFLICT (domain) DO UPDATE
\* SET ip_address, discord, updated_at.
Database_add_domain(store, domain, ip_address, discord) ==
    LET key == to_lowercase(domain) IN
    IF key \in DOMAIN store
    THEN [store EXCEPT ![key].ip_address = ip_address, ![key].discord = discord]
    ELSE [k \in DOMAIN store \cup {key} |->
            IF k = key THEN NewRow(ip_address, discord) ELSE store[k]]

\* Database::remove_domain: UPDATE domains SET enabled = false WHERE domain = $1
Database_remove_domain(store, domain) ==
    LET key == to_lowercase(domain) IN
    IF key \in DOMAIN store
    THEN [store EXCEPT ![key].enabled = FALSE]
    ELSE store

\* Database::update_domain_verification: UPDATE domains SET verified = $1,
\* last_verified = NOW(), nameservers = $2 WHERE domain = $3
Database_update_domain_verification(store, domain, verified, nameservers, t) ==
    LET key == to_lowercase(domain) IN
    IF key \in DOMAIN store
    THEN [store EXCEPT ![key].verified = verified,
                       ![key].last_verified = Some(t),
                       ![key].nameservers = Some(nameservers)]
    ELSE store

\* Database::get_domain: SELECT ... WHERE domain = $1 AND enabled = true
Database_get_domain(store, domain) ==
    LET key == to_lowercase(domain) IN
    IF key \in DOMAIN store /\ store[key].enabled THEN Some(store[key]) ELSE None

\* A variant of Database::get_all_domains without its WHERE clause.
Database_get_all_domains_disabled_too(store) == DOMAIN store

\* Database::get_all_domains: SELECT ... WHERE enabled = true (the keys of
\* the rows returned; the rows are read from the store).
Database_get_all_domains(store) == {k \in DOMAIN store : store[k].enabled}

(***************************************************************************)
(* The remote directory (Supabase): table domains, a list of rows in the   *)
(* order GET /rest/v1/domains lists them.  A row keeps the fields the code *)
(* reads or writes: domain (as the remote spells it), active, discord and  *)
(* pending_ns_check; its id is its place in the list, updated_at is never  *)
(* read.                                                                   *)
(***************************************************************************)
SupabaseDomain(domain, active, discord, pending_ns_check) ==
    [domain |-> domain, active |-> active, discord |-> discord,
     pending_ns_check |-> pending_ns_check]

\* A variant of supabase_ip that always takes the default address.
supabase_ip_default(discord) == DefaultMailIp

\* sync_from_supabase: let ip = if supabase_domain.discord {..} else {..}
supabase_ip(discord) == IF discord THEN DiscordMailIp ELSE DefaultMailIp

\* A variant of sync_from_supabase_rows that does not look at active.
RECURSIVE sync_from_supabase_rows_inactive_too(_, _, _, _, _)
sync_from_supabase_rows_inactive_too(store, supabase_domains, i, n, patches) ==
    IF i > Len(supabase_domains)
    THEN [db |-> store, supabase |-> supabase_domains, is_ok |-> TRUE]
    ELSE LET supabase_domain == supabase_domains[i] IN
         IF n = 0
         THEN [db |-> store, supabase |-> supabase_domains, is_ok |-> FALSE]
         ELSE LET written == Database_add_domain(store, supabase_domain.domain,
                                                 supabase_ip(supabase_domain.discord),
                                                 supabase_domain.discord)
                  internal_domain == Database_get_domain(written, supabase_domain.domain)
              IN  IF internal_domain = None
                  THEN sync_from_supabase_rows_inactive_too(written, supabase_domains,
                                                            i + 1, n - 1, patches)
                  ELSE IF patches = 0
                  THEN [db |-> written, supabase |-> supabase_domains, is_ok |-> FALSE]
                  ELSE sync_from_supabase_rows_inactive_too(
                           written,
                           [supabase_domains EXCEPT
                               ![i].pending_ns_check = ~internal_domain[1].verified],
                           i + 1, n - 1, patches - 1)

\* SupabaseClient::sync_from_supabase, the loop from row i on: for each
\* active row database.add_domain, database.get_domain and, a row found,
\* update_domain(id, {pending_ns_check: !verified, updated_at}).  Every call
\* is followed by `?`: an error ends the pull, and what was written so far
\* stays.  n is the number of add_domain calls the store still answers,
\* patches the number of update_domain calls the remote still answers.
RECURSIVE sync_from_supabase_rows(_, _, _, _, _)
sync_from_supabase_rows(store, supabase_domains, i, n, patches) ==
    IF i > Len(supabase_domains)
    THEN [db |-> store, supabase |-> supabase_domains, is_ok |-> TRUE]
    ELSE LET supabase_domain == supabase_domains[i] IN
         IF ~supabase_domain.active
         THEN sync_from_supabase_rows(store, supabase_domains, i + 1, n, patches)
         ELSE IF n = 0
         THEN [db |-> store, supabase |-> supabase_domains, is_ok |-> FALSE]
         ELSE LET written == Database_add_domain(store, supabase_domain.domain,
                                                 supabase_ip(supabase_domain.discord),
                                                 supabase_domain.discord)
                  internal_domain == Database_get_domain(written, supabase_domain.domain)
              IN  IF internal_domain = None
                  THEN sync_from_supabase_rows(written, supabase_domains,
                                               i + 1, n - 1, patches)
                  ELSE IF patches = 0
                  THEN [db |-> written, supabase |-> supabase_domains, is_ok |-> FALSE]
                  ELSE sync_from_supabase_rows(
                           written,
                           [supabase_domains EXCEPT
                               ![i].pending_ns_check = ~internal_domain[1].verified],
                           i + 1, n - 1, patches - 1)

\* SupabaseClient::sync_from_supabase.  calls is the number of calls the
\* remote answers before one fails: the list (get_all_domains) first, the
\* patches after it.
sync_from_supabase(store, supabase_domains, n, calls) ==
    IF calls = 0
    THEN [db |-> store, supabase |-> supabase_domains, is_ok |-> FALSE]
    ELSE sync_from_supabase_rows(store, supabase_domains, 1, n, calls - 1)

\* sync_to_supabase: supabase_domain_map.get(&internal_domain.domain).  The
\* map is collected from the list, a later row of the same domain replacing
\* an earlier one; the key is the remote's spelling, compared as it is.
\* The result is the row's place in the list, 0 when there is none.
supabase_domain_map_get(supabase_domains, domain) ==
    LET places == {i \in DOMAIN supabase_domains : supabase_domains[i].domain = domain} IN
    IF places = {} THEN 0
    ELSE CHOOSE i \in places : \A j \in places : j <= i

\* A variant of sync_to_supabase_rows that patches pending_ns_check with the
\* store's verified flag itself.
RECURSIVE sync_to_supabase_rows_unnegated(_, _, _, _)
sync_to_supabase_rows_unnegated(store, supabase_domains, internal_domains, patches) ==
    IF internal_domains = <<>>
    THEN [supabase |-> supabase_domains, is_ok |-> TRUE]
    ELSE LET domain == Head(internal_domains)
             id == supabase_domain_map_get(supabase_domains, domain)
         IN  IF id = 0
             THEN sync_to_supabase_rows_unnegated(store, supabase_domains,
                                                  Tail(internal_domains), patches)
             ELSE IF patches = 0
             THEN [supabase |-> supabase_domains, is_ok |-> FALSE]
             ELSE sync_to_supabase_rows_unnegated(
                      store,
                      [supabase_domains EXCEPT
                          ![id].pending_ns_check = store[domain].verified,
                          ![id].discord = store[domain].discord],
                      Tail(internal_domains), patches - 1)

\* SupabaseClient::sync_to_supabase, the loop over the store's enabled rows
\* (internal_domains, their keys in the order the store returned them): a
\* row the remote lists under the same domain is patched with
\* {pending_ns_check: !verified, discord, updated_at}; for the others a
\* warning is logged.  The map was built from the list read before the
\* loop; a patch changes neither a row's domain nor its place.
RECURSIVE sync_to_supabase_rows(_, _, _, _)
sync_to_supabase_rows(store, supabase_domains, internal_domains, patches) ==
    IF internal_domains = <<>>
    THEN [supabase |-> supabase_domains, is_ok |-> TRUE]
    ELSE LET domain == Head(internal_domains)
             id == supabase_domain_map_get(supabase_domains, domain)
         IN  IF id = 0
             THEN sync_to_supabase_rows(store, supabase_domains,
                                        Tail(internal_domains), patches)
             ELSE IF patches = 0
             THEN [supabase |-> supabase_domains, is_ok |-> FALSE]
             ELSE sync_to_supabase_rows(
                      store,
                      [supabase_domains EXCEPT
                          ![id].pending_ns_check = ~store[domain].verified,
                          ![id].discord = store[domain].discord],
                      Tail(internal_domains), patches - 1)

\* SupabaseClient::sync_to_supabase.  database.get_all_domains answers
\* internal_domains (store_ok) or fails; calls is the number of calls the
\* remote answers before one fails: the list first, the patches after it.
sync_to_supabase(store, supabase_domains, internal_domains, store_ok, calls) ==
    IF ~store_ok \/ calls = 0
    THEN [supabase |-> supabase_domains, is_ok |-> FALSE]
    ELSE sync_to_supabase_rows(store, supabase_domains, internal_domains, calls - 1)

(***************************************************************************)
(* The registry: DomainManager.domains, HashMap<String, DomainRecord>.     *)
(* created_at is never read and is left out of the record.                 *)
(***************************************************************************)
Statuses == {"Verified", "PendingVerification", "FailedVerification", "GracePeriod"}

\* The DomainRecord load_from_database builds from a row.
RecordFromRow(key, row) ==
    [domain |-> key,
     ip |-> row.ip_address,
     enabled |-> row.enabled,
     last_verified |-> row.last_verified,
     nameservers |-> IF row.nameservers = None THEN <<>> ELSE row.nameservers[1],
     verification_status |-> IF row.verified THEN "Verified" ELSE "PendingVerification",
     grace_period_ends |-> None,
     discord |-> row.discord]

\* DomainManager::load_from_database.  self.domains is not cleared: each
\* enabled row is inserted over whatever the map holds under its key.
load_from_database(ds, store, store_ok) ==
    IF ~store_ok
    THEN [domains |-> ds, db |-> store, is_ok |-> FALSE]
    ELSE LET rows == Database_get_all_domains(store) IN
         [domains |-> [k \in DOMAIN ds \cup rows |->
                         IF k \in rows THEN RecordFromRow(k, store[k]) ELSE ds[k]],
          db |-> store, is_ok |-> TRUE]

\* DomainManager::get_domain: Some(record) or None.
get_domain(ds, domain) ==
    LET key == to_lowercase(domain) IN
    IF key \in DOMAIN ds THEN Some(ds[key]) ELSE None

\* A variant of on_has_our_ns that forgets to clear the grace deadline.
on_has_our_ns_keeping_grace(record) ==
    [record EXCEPT !.verification_status = "Verified"]

\* verify_domain, has_our_ns branch: the record becomes Verified.
on_has_our_ns(record) ==
    [record EXCEPT !.verification_status = "Verified", !.grace_period_ends = None]

\* A variant of grace_expired that expires at the deadline itself (>=).
grace_expired_at_deadline(record, t) ==
    /\ record.verification_status = "GracePeriod"
    /\ record.grace_period_ends # None
    /\ t >= record.grace_period_ends[1]

\* verify_domain: Utc::now() > grace_end, for a record in GracePeriod.
grace_expired(record, t) ==
    /\ record.verification_status = "GracePeriod"
    /\ record.grace_period_ends # None
    /\ t > record.grace_period_ends[1]

\* A variant of on_lost_ns whose last branch leaves the record as it is.
on_lost_ns_sticky(record, t) ==
    IF record.verification_status = "Verified"
    THEN [record EXCEPT !.verification_status = "GracePeriod",
                        !.grace_period_ends = Some(t + grace_period)]
    ELSE IF record.verification_status = "GracePeriod"
    THEN IF record.grace_period_ends # None /\ t > record.grace_period_ends[1]
         THEN [record EXCEPT !.enabled = FALSE,
                             !.verification_status = "FailedVerification"]
         ELSE record
    ELSE record

\* verify_domain, branch of a lookup that answered without our nameservers.
on_lost_ns(record, t) ==
    IF record.verification_status = "Verified"
    THEN [record EXCEPT !.verification_status = "GracePeriod",
                        !.grace_period_ends = Some(t + grace_period)]
    ELSE IF record.verification_status = "GracePeriod"
    THEN IF grace_expired(record, t)
         THEN [record EXCEPT !.enabled = FALSE,
                             !.verification_status = "FailedVerification"]
         ELSE record
    ELSE [record EXCEPT !.verification_status = "PendingVerification"]

\* A variant of on_lookup_err that parks a Verified record in
\* PendingVerification.
on_lookup_err_pending(record, t) ==
    [record EXCEPT !.verification_status =
                       IF record.verification_status = "Verified"
                       THEN "PendingVerification" ELSE "FailedVerification",
                   !.last_verified = Some(t)]

\* A variant of on_lookup_err that empties the nameserver list.
on_lookup_err_clearing_ns(record, t) ==
    [record EXCEPT !.verification_status = "FailedVerification",
                   !.last_verified = Some(t),
                   !.nameservers = <<>>]

\* verify_domain, Err branch of the lookup.
on_lookup_err(record, t) ==
    [record EXCEPT !.verification_status = "FailedVerification",
                   !.last_verified = Some(t)]

\* verify_domain, Ok branch: what every answered lookup writes first.
on_lookup_ok(record, current_ns, t) ==
    [record EXCEPT !.nameservers = current_ns, !.last_verified = Some(t)]

\* DomainManager::verify_domain.  A failing store call is logged and
\* swallowed (store_ok = FALSE: the store keeps its state).  call names the
\* store method the run called; result is the bool returned.
verify_domain(ds, store, d, lookup, t, store_ok) ==
    LET domain == to_lowercase(d) IN
    IF domain \notin DOMAIN ds
    THEN [domains |-> ds, db |-> store, call |-> "none", result |-> FALSE]
    ELSE IF ~lookup.is_ok
    THEN [domains |-> [ds EXCEPT ![domain] = on_lookup_err(ds[domain], t)],
          db |-> store, call |-> "none", result |-> FALSE]
    ELSE LET record == on_lookup_ok(ds[domain], lookup.ns, t) IN
         IF has_our_ns(lookup.ns)
         THEN [domains |-> [ds EXCEPT ![domain] = on_has_our_ns(record)],
               db |-> IF store_ok
                      THEN Database_update_domain_verification(store, domain, TRUE, lookup.ns, t)
                      ELSE store,
               call |-> "update_domain_verification",
               result |-> TRUE]
         ELSE [domains |-> [ds EXCEPT ![domain] = on_lost_ns(record, t)],
               db |-> IF grace_expired(record, t) /\ store_ok
                      THEN Database_remove_domain(store, domain)
                      ELSE store,
               call |-> IF grace_expired(record, t) THEN "remove_domain" ELSE "none",
               result |-> FALSE]

\* verify_domain, the assignments it makes to the record it found, in the
\* order of the code: each a field and the value written.
verify_domain_assignments(record, lookup, t) ==
    IF ~lookup.is_ok
    THEN << <<"verification_status", "FailedVerification">>,
            <<"last_verified", Some(t)>> >>
    ELSE << <<"nameservers", lookup.ns>>, <<"last_verified", Some(t)>> >> \o
         ( IF has_our_ns(lookup.ns)
           THEN << <<"verification_status", "Verified">>,
                   <<"grace_period_ends", None>> >>
           ELSE IF record.verification_status = "Verified"
           THEN << <<"verification_status", "GracePeriod">>,
                   <<"grace_period_ends", Some(t + grace_period)>> >>
           ELSE IF record.verification_status = "GracePeriod"
           THEN IF grace_expired(record, t)
                THEN << <<"enabled", FALSE>>,
                        <<"verification_status", "FailedVerification">> >>
                ELSE <<>>
           ELSE << <<"verification_status", "PendingVerification">> >> )

\* A variant of add_domain that keeps the caller's ip for a discord domain.
add_domain_keeping_ip(ds, store, d, ip, discord, store_ok) ==
    LET domain == to_lowercase(d)
        record == [domain |-> domain,
                   ip |-> ip,
                   enabled |-> TRUE,
                   last_verified |-> None,
                   nameservers |-> <<>>,
                   verification_status |-> "PendingVerification",
                   grace_period_ends |-> None,
                   discord |-> discord]
    IN  IF ~store_ok
        THEN [domains |-> ds, db |-> store, is_ok |-> FALSE]
        ELSE [domains |-> [k \in DOMAIN ds \cup {domain} |->
                             IF k = domain THEN record ELSE ds[k]],
              db |-> Database_add_domain(store, domain, record.ip, discord),
              is_ok |-> TRUE]

\* DomainManager::add_domain.  The store is written first; its error
\* returns before the map is touched.
add_domain(ds, store, d, ip, discord, store_ok) ==
    LET domain == to_lowercase(d)
        record == [domain |-> domain,
                   ip |-> IF discord THEN DiscordMailIp ELSE ip,
                   enabled |-> TRUE,
                   last_verified |-> None,
                   nameservers |-> <<>>,
                   verification_status |-> "PendingVerification",
                   grace_period_ends |-> None,
                   discord |-> discord]
    IN  IF ~store_ok
        THEN [domains |-> ds, db |-> store, is_ok |-> FALSE]
        ELSE [domains |-> [k \in DOMAIN ds \cup {domain} |->
                             IF k = domain THEN record ELSE ds[k]],
              db |-> Database_add_domain(store, domain, record.ip, discord),
              is_ok |-> TRUE]

\* A variant of remove_domain that disables the store's row of a name the
\* map does not hold, before it reports "not found".
remove_domain_always_disabling(ds, store, d, store_ok) ==
    LET domain == to_lowercase(d) IN
    IF domain \in DOMAIN ds
    THEN [domains |-> [k \in DOMAIN ds \ {domain} |-> ds[k]],
          db |-> IF store_ok THEN Database_remove_domain(store, domain) ELSE store,
          is_ok |-> store_ok]
    ELSE [domains |-> ds,
          db |-> IF store_ok THEN Database_remove_domain(store, domain) ELSE store,
          is_ok |-> FALSE]

\* A variant of remove_domain that never writes the store.
remove_domain_skipping_store(ds, store, d, store_ok) ==
    LET domain == to_lowercase(d) IN
    IF domain \in DOMAIN ds
    THEN [domains |-> [k \in DOMAIN ds \ {domain} |-> ds[k]],
          db |-> store, is_ok |-> store_ok]
    ELSE [domains |-> ds, db |-> store, is_ok |-> FALSE]

\* DomainManager::remove_domain.  The entry is taken out of the map before
\* the store is written; "not found" when the map has no such key.
remove_domain(ds, store, d, store_ok) ==
    LET domain == to_lowercase(d) IN
    IF domain \in DOMAIN ds
    THEN [domains |-> [k \in DOMAIN ds \ {domain} |-> ds[k]],
          db |-> IF store_ok THEN Database_remove_domain(store, domain) ELSE store,
          is_ok |-> store_ok]
    ELSE [domains |-> ds, db |-> store, is_ok |-> FALSE]

\* A variant of discover_domain that adds the name whatever nameservers the
\* lookup answered.
discover_domain_unchecked(ds, store, d, lookup, t, store_ok) ==
    LET domain == to_lowercase(d)
        discord == contains(domain, <<"d", "i", "s", "c", "o", "r", "d">>)
        ip == IF discord THEN DiscordMailIp ELSE DefaultMailIp
        record == [domain |-> domain,
                   ip |-> ip,
                   enabled |-> TRUE,
                   last_verified |-> Some(t),
                   nameservers |-> lookup.ns,
                   verification_status |-> "Verified",
                   grace_period_ends |-> None,
                   discord |-> discord]
    IN  IF domain \in DOMAIN ds \/ ~lookup.is_ok
        THEN [domains |-> ds, db |-> store, call |-> "none", is_ok |-> TRUE]
        ELSE IF ~store_ok
        THEN [domains |-> ds, db |-> store, call |-> "add_domain", is_ok |-> FALSE]
        ELSE [domains |-> [k \in DOMAIN ds \cup {domain} |->
                             IF k = domain THEN record ELSE ds[k]],
              db |-> Database_add_domain(store, domain, ip, discord),
              call |-> "add_domain",
              is_ok |-> TRUE]

\* DomainManager::discover_domain.  call names the store method the run
\* called.
discover_domain(ds, store, d, lookup, t, store_ok) ==
    LET domain == to_lowercase(d)
        discord == contains(domain, <<"d", "i", "s", "c", "o", "r", "d">>)
        ip == IF discord THEN DiscordMailIp ELSE DefaultMailIp
        record == [domain |-> domain,
                   ip |-> ip,
                   enabled |-> TRUE,
                   last_verified |-> Some(t),
                   nameservers |-> lookup.ns,
                   verification_status |-> "Verified",
                   grace_period_ends |-> None,
                   discord |-> discord]
    IN  IF domain \in DOMAIN ds \/ ~lookup.is_ok \/ ~has_our_ns(lookup.ns)
        THEN [domains |-> ds, db |-> store, call |-> "none", is_ok |-> TRUE]
        ELSE IF ~store_ok
        THEN [domains |-> ds, db |-> store, call |-> "add_domain", is_ok |-> FALSE]
        ELSE [domains |-> [k \in DOMAIN ds \cup {domain} |->
                             IF k = domain THEN record ELSE ds[k]],
              db |-> Database_add_domain(store, domain, ip, discord),
              call |-> "add_domain",
              is_ok |-> TRUE]


(***************************************************************************)
(* The UDP responder: CybertempHandler.                                    *)
(***************************************************************************)
\* DnsConfig::default(): default_ttl, mx_priority, mail_server, nameservers.
default_ttl == 300
mx_priority == 10
mail_server == <<"m", "a", "i", "l", ".", "{", "d", "o", "m", "a", "i", "n", "}">>
nameservers == our_ns

\* str::starts_with
starts_with(s, prefix) ==
    Len(s) >= Len(prefix) /\ SubSeq(s, 1, Len(prefix)) = prefix

\* str::replace: every non-overlapping match of from, left to right.
RECURSIVE replace(_, _, _)
replace(s, from, to) ==
    IF Len(s) < Len(from) THEN s
    ELSE IF SubSeq(s, 1, Len(from)) = from
    THEN to \o replace(SubSeq(s, Len(from) + 1, Len(s)), from, to)
    ELSE <<s[1]>> \o replace(Tail(s), from, to)

\* str::trim_start_matches: the prefix is removed as often as it matches.
RECURSIVE trim_start_matches(_, _)
trim_start_matches(s, prefix) ==
    IF starts_with(s, prefix)
    THEN trim_start_matches(SubSeq(s, Len(prefix) + 1, Len(s)), prefix)
    ELSE s

\* Query::name().to_ascii() of a name decoded from a datagram: the labels
\* joined by dots, case kept, and the dot of a fully qualified name (every
\* name read from the wire is one) at the end.
to_ascii(wire_name) == wire_name \o <<".">>

\* Name::from_ascii(s) is Ok: no label of s is empty (the last dot of a fully
\* qualified name aside).  The handlers unwrap() it.
from_ascii_is_ok(s) ==
    /\ ~contains(s, <<".", ".">>)
    /\ ~(Len(s) > 1 /\ s[1] = ".")

\* str::parse::<Ipv4Addr>() is Ok, on the addresses of the model.
parse_ipv4_is_ok(ip) == ip \in {"9.9.9.9", "37.114.41.81", "45.134.39.50"}

\* A variant of NewResponse that leaves recursion_desired as Message::new()
\* sets it.
NewResponse_without_rd(request) ==
    [id |-> request.id,
     op_code |-> request.op_code,
     message_type |-> "Response",
     recursion_desired |-> FALSE,
     response_code |-> "NoError",
     answers |-> <<>>]

\* Message::new() with the header handle_dns_message copies from the request.
NewResponse(request) ==
    [id |-> request.id,
     op_code |-> request.op_code,
     message_type |-> "Response",
     recursion_desired |-> request.recursion_desired,
     response_code |-> "NoError",
     answers |-> <<>>]

Answer(name, rtype, rdata) ==
    [name |-> name, ttl |-> default_ttl, rtype |-> rtype, rdata |-> rdata]

\* A variant of the gate that looks at enabled only.
gate_open_ignoring_status(record) ==
    record.enabled

\* The gate of every handler: the record may be answered from.
\* !(!record.enabled || record.verification_status != Verified)
gate_open(record) ==
    record.enabled /\ record.verification_status = "Verified"

Handled(response) == [response |-> response, panicked |-> FALSE]
Panicked(response) == [response |-> response, panicked |-> TRUE]
Refused(response) == Handled([response EXCEPT !.response_code = "Refused"])
\* A variant of NoError that puts a question's answers before the earlier ones.
NoError_in_front(response, new_answers) ==
    Handled([response EXCEPT !.response_code = "NoError",
                             !.answers = new_answers \o response.answers])

NoError(response, new_answers) ==
    Handled([response EXCEPT !.response_code = "NoError",
                             !.answers = response.answers \o new_answers])

\* handle_a_record, the mail subdomain's second answer.
mail_answers(ds, domain) ==
    IF starts_with(domain, <<"m", "a", "i", "l", ".">>) \/ domain = <<"m", "a", "i", "l">>
    THEN LET base_domain ==
                 IF domain = <<"m", "a", "i", "l">>
                 THEN <<"c", "y", "b", "e", "r", "t", "e", "m", "p", ".", "x", "y", "z">>
                 ELSE trim_start_matches(domain, <<"m", "a", "i", "l", ".">>)
             parent == get_domain(ds, base_domain)
         IN  IF parent # None
             THEN << Answer(domain, "A",
                            IF parent[1].discord THEN DiscordMailIp ELSE DefaultMailIp) >>
             ELSE <<>>
    ELSE <<>>

\* CybertempHandler::handle_a_record
handle_a_record(ds, domain, response) ==
    LET found == get_domain(ds, domain) IN
    IF found = None THEN NoError(response, <<>>)
    ELSE IF ~gate_open(found[1]) THEN Refused(response)
    ELSE NoError(response,
                 (IF parse_ipv4_is_ok(found[1].ip)
                  THEN << Answer(domain, "A", found[1].ip) >> ELSE <<>>)
                 \o mail_answers(ds, domain))

\* CybertempHandler::handle_mx_record
handle_mx_record(ds, domain, response) ==
    LET found == get_domain(ds, domain) IN
    IF found = None THEN NoError(response, <<>>)
    ELSE IF ~gate_open(found[1]) THEN Refused(response)
    ELSE LET mail_server_name ==
                 IF found[1].discord
                 THEN <<"m", "a", "i", "l", ".">> \o domain \o
                      <<".", "d", "i", "s", "c", "o", "r", "d", ".", "c", "y", "b",
                        "e", "r", "t", "e", "m", "p", ".", "x", "y", "z">>
                 ELSE replace(mail_server, <<"{", "d", "o", "m", "a", "i", "n", "}">>, domain)
             mx == [preference |-> mx_priority, exchange |-> mail_server_name]
         IN  IF ~from_ascii_is_ok(mail_server_name) THEN Panicked(response)
             ELSE NoError(response,
                          << Answer(domain, "MX", mx),
                             Answer(<<"*", ".">> \o domain, "MX", mx) >>)

\* CybertempHandler::handle_txt_record
handle_txt_record(ds, domain, response) ==
    LET found == get_domain(ds, domain) IN
    IF found = None THEN NoError(response, <<>>)
    ELSE IF ~gate_open(found[1]) THEN Refused(response)
    ELSE NoError(response,
                 << Answer(domain, "TXT", "v=spf1 a mx include:_spf.google.com -all"),
                    Answer(<<"_", "d", "m", "a", "r", "c", ".">> \o domain, "TXT",
                           "v=DMARC1; p=none;") >>)

\* CybertempHandler::handle_ns_record
handle_ns_record(ds, domain, response) ==
    LET found == get_domain(ds, domain) IN
    IF found = None THEN NoError(response, <<>>)
    ELSE IF ~gate_open(found[1]) THEN Refused(response)
    ELSE NoError(response,
                 [i \in DOMAIN nameservers |-> Answer(domain, "NS", nameservers[i])])

\* CybertempHandler::handle_aaaa_record and handle_query's other types.
handle_aaaa_record(domain, response) == NoError(response, <<>>)

\* CybertempHandler::handle_query
handle_query(ds, query, response) ==
    LET name == to_ascii(query.name) IN
    CASE query.query_type = "A" -> handle_a_record(ds, name, response)
      [] query.query_type = "MX" -> handle_mx_record(ds, name, response)
      [] query.query_type = "TXT" -> handle_txt_record(ds, name, response)
      [] query.query_type = "NS" -> handle_ns_record(ds, name, response)
      [] query.query_type = "AAAA" -> handle_aaaa_record(name, response)
      [] OTHER -> NoError(response, <<>>)

(***************************************************************************)
(* State.                                                                  *)
(***************************************************************************)
VARIABLES
    config,     \* DnsConfig, frozen after construction
    now,        \* the clock (Utc::now() and the store's NOW()), in hours
    domains,    \* DomainManager.domains
    db,         \* the store's table domains
    lock,       \* who holds Arc<RwLock<DomainManager>> for writing, or "free"
    vqueue,     \* verify_all_domains: the snapshot's keys not yet verified
    dns,        \* start_dns_server's loop: the datagram in hand and its response
    alive,      \* the tasks of DnsServer::run are running: FALSE before run
                \* and once the process has ended (main's panic hook, exit)
    supabase,   \* the remote directory's table domains
    probe,      \* verify_domain run by the verifier: where it is, what it holds
    boot,       \* main: where the process is on its way to DnsServer::run
    rw,         \* the RwLock's read guards and wait queue, and where each
                \* task is in its use of the lock
    lastOp      \* the operation the last step performed (history)

vars == <<config, now, domains, db, lock, vqueue, dns, alive, supabase, probe, boot, rw, lastOp>>

NoName == <<>>
NoDatagram == [decodes |-> FALSE]
NoQuery == [name |-> NoName, query_type |-> "none"]
NoHttp == [status |-> 0]

Op(op, domain, outcome, before, is_ok) ==
    [op |-> op, domain |-> domain, outcome |-> outcome, at |-> now,
     before |-> before, is_ok |-> is_ok,
     ns |-> <<>>, call |-> "none",
     args |-> <<>>, changed |-> FALSE, http |-> 0, request |-> NoDatagram,
     query |-> NoQuery, added |-> <<>>, code |-> "none", sent |-> NoDatagram,
     http_request |-> NoHttp, http_response |-> NoHttp]

\* A variant of read_granted that does not wait for the writer.
read_granted_at_once(l) == TRUE

\* domain_manager.read().await returns once no task holds the write guard.
read_granted(l) == l = "free"

\* The status of the record under to_lowercase(d) in ds, or "Absent".
StatusOf(ds, d) ==
    IF to_lowercase(d) \in DOMAIN ds
    THEN ds[to_lowercase(d)].verification_status
    ELSE "Absent"

(***************************************************************************)
(* The datagrams a client sends.  A decoded Message: id, op_code,          *)
(* recursion_desired and the queries, each a name (as on the wire: labels, *)
(* no final dot) and a type.                                               *)
(***************************************************************************)
QueryTypes == {"A", "MX", "TXT", "NS", "AAAA", "CNAME"}

Query(name, query_type) == [name |-> name, query_type |-> query_type]

Request(id, op_code, rd, queries) ==
    [decodes |-> TRUE, id |-> id, op_code |-> op_code,
     recursion_desired |-> rd, queries |-> queries]

\* Message::from_bytes(data) fails.
Malformed == [decodes |-> FALSE]

\* The requests of the model: a query of every type for "a.t", an A query
\* for "A.T", an A query under another header, a message of another opcode,
\* and two messages of two questions.
Requests ==
    { Request(4660, "Query", TRUE, <<Query(Name_a, t)>>) : t \in QueryTypes }
    \cup { Request(4660, "Query", TRUE, <<Query(Name_A, "A")>>),
           Request(7, "Query", FALSE, <<Query(Name_a, "A")>>),
           Request(7, "Status", TRUE, <<Query(Name_a, "A")>>),
           Request(4660, "Query", TRUE, <<Query(Name_a, "A"), Query(Name_a, "MX")>>),
           Request(4660, "Query", TRUE, <<Query(Name_a, "A"), Query(Name_a, "AAAA")>>) }

DnsIdle == [pc |-> "recv", request |-> NoDatagram, response |-> NoDatagram, qnext |-> 0]

\* The verifier is not inside verify_domain.
ProbeIdle == [pc |-> "idle"]

\* DnsServer::new has returned Ok and main has called run.
Running == [pc |-> "run"]

(***************************************************************************)
(* The tasks that share Arc<RwLock<DomainManager>>, each by what it does    *)
(* with the lock in one round of its loop or one request: "read" and       *)
(* "write" are domain_manager.read().await and .write().await, "work" is   *)
(* what it does with the registry (store calls and lookups included),      *)
(* "call" is a push to the remote, "release" is the guard going out of     *)
(* scope.                                                                  *)
(***************************************************************************)
Tasks == {"responder", "redirect", "verifier", "sync", "discovery", "admin"}

\* A variant of Program whose responder keeps the guard of one question
\* while it asks for the guard of the next.
Program_keeping_guard(task) ==
    CASE task = "responder" -> <<"read", "work", "read", "work", "release", "release">>
      [] task = "redirect" -> <<"read", "work", "release">>
      [] task = "verifier" -> <<"write", "work", "release">>
      [] task = "sync" -> <<"call", "write", "work", "release">>
      [] task = "discovery" -> <<"write", "work", "release">>
      [] task = "admin" -> <<"write", "work", "call", "release">>

\* handle_*_record, handle_http_request, the verification loop, the sync
\* loop, the auto-discovery loop, and DnsServer::add_domain, remove_domain,
\* discover_domain and force_verification.
Program(task) ==
    CASE task = "responder" -> <<"read", "work", "release">>
      [] task = "redirect" -> <<"read", "work", "release">>
      [] task = "verifier" -> <<"write", "work", "release">>
      [] task = "sync" -> <<"call", "write", "work", "release">>
      [] task = "discovery" -> <<"write", "work", "release">>
      [] task = "admin" -> <<"write", "work", "call", "release">>

\* No task uses the lock: each is at the start of its round.
RwIdle == [pc |-> [t \in Tasks |-> 1], readers |-> [t \in Tasks |-> 0], queue |-> <<>>]

(***************************************************************************)
(* The stores a process can find at start: empty, or a row of one name     *)
(* left by an earlier run (added, or added and verified).                  *)
(***************************************************************************)
EmptyMap == [k \in {} |-> {}]

InitStores(name) ==
    { EmptyMap,
      [k \in {name} |-> NewRow(DefaultMailIp, FALSE)],
      [k \in {name} |-> [NewRow(DefaultMailIp, FALSE) EXCEPT
                            !.verified = TRUE,
                            !.last_verified = Some(0),
                            !.nameservers = Some(OursReply)]] }

\* DnsServer::new: DomainManager::new().with_database(db), then
\* load_from_database, which must succeed.
InitWith(grace_hours, stores) ==
    /\ config \in [grace_period_hours : grace_hours]
    /\ now = 0
    /\ db \in stores
    /\ domains = load_from_database(EmptyMap, db, TRUE).domains
    /\ lock = "free"
    /\ vqueue = {}
    /\ dns = DnsIdle
    /\ alive = TRUE
    /\ supabase = <<>>
    /\ probe = ProbeIdle
    /\ boot = Running
    /\ rw = RwIdle
    /\ lastOp = Op("new", NoName, "none", "Absent", TRUE)

Init == InitWith(GracePeriodHoursValues, InitStores(Name_a))

(***************************************************************************)
(* The calls of a push or a pull that the remote answers.                  *)
(***************************************************************************)
\* The number of calls the remote answers before one fails: none, the list
\* alone, the list and some patches, or all of them (at most one patch for
\* each row).
RemoteCalls(supabase_domains) == 0..(Len(supabase_domains) + 1)

\* get_all_domains' ORDER BY domain: the keys in the order of the store's
\* collation, which the source does not fix.
RECURSIVE Orders(_)
Orders(keys) ==
    IF keys = {} THEN {<<>>}
    ELSE UNION { { <<k>> \o rest : rest \in Orders(keys \ {k}) } : k \in keys }

\* The tables sync_to_supabase can leave: after every call answered, or
\* after the store or one of the remote's calls failed.
Pushed(store, supabase_domains) ==
    { sync_to_supabase(store, supabase_domains, internal_domains, store_ok, calls).supabase :
        internal_domains \in Orders(Database_get_all_domains(store)),
        store_ok \in BOOLEAN, calls \in RemoteCalls(supabase_domains) }

(***************************************************************************)
(* Actions of the control plane.                                           *)
(***************************************************************************)
\* Time passes.
Tick ==
    /\ alive
    /\ now < MaxTime * ClockStep
    /\ now' = now + ClockStep
    /\ lastOp' = Op("tick", NoName, "none", "Absent", TRUE)
    /\ UNCHANGED <<rw, boot, supabase, probe, config, domains, db, lock, vqueue, dns, alive>>

\* DnsServer::run, verification loop: interval.tick(), then
\* verification_manager.write().await.verify_all_domains(): the write lock
\* is taken and the keys are snapshot.
VerifierTick ==
    /\ alive
    /\ lock = "free"
    /\ lock' = "verifier"
    /\ vqueue' = DOMAIN domains
    /\ lastOp' = Op("verify_all", NoName, "none", "Absent", TRUE)
    /\ UNCHANGED <<rw, boot, supabase, probe, config, now, domains, db, dns, alive>>

\* verify_all_domains: self.verify_domain(&domain).await for one key of the
\* snapshot (a HashMap's keys come in any order), the lock still held.
VerifyNext(k, lookup, store_ok) ==
    /\ alive
    /\ lock = "verifier"
    /\ k \in vqueue
    /\ LET r == verify_domain(domains, db, k, lookup, now, store_ok) IN
        /\ domains' = r.domains
        /\ db' = r.db
        /\ lastOp' = [Op("verify", to_lowercase(k), Outcome(lookup),
                         StatusOf(domains, k), TRUE)
                      EXCEPT !.ns = lookup.ns, !.call = r.call]
    /\ vqueue' = vqueue \ {k}
    /\ UNCHANGED <<rw, boot, supabase, probe, config, now, lock, dns, alive>>

\* verify_all_domains returns; the write guard is dropped.
VerifierDone ==
    /\ alive
    /\ lock = "verifier"
    /\ vqueue = {}
    /\ lock' = "free"
    /\ lastOp' = Op("verify_done", NoName, "none", "Absent", TRUE)
    /\ UNCHANGED <<rw, boot, supabase, probe, config, now, domains, db, vqueue, dns, alive>>

(***************************************************************************)
(* verify_all_domains step by step, for the specification that watches the *)
(* registry's lock: the lookup's await, each assignment to the record, and *)
(* the store call's await are steps of their own, the write guard held     *)
(* from VerifierTick to VerifierDone.                                      *)
(***************************************************************************)
\* verify_domain(k) starts: self.resolver.lookup(..).await is in flight.
ProbeLookup(k) ==
    /\ alive
    /\ lock = "verifier"
    /\ probe.pc = "idle"
    /\ k \in vqueue
    /\ probe' = [pc |-> "lookup", domain |-> k]
    /\ lastOp' = Op("probe", k, "none", StatusOf(domains, k), TRUE)
    /\ UNCHANGED <<rw, boot, supabase, config, now, domains, db, lock, vqueue, dns, alive>>

\* The lookup returns; the record is found (get_mut) and the assignments to
\* make are known.
ProbeAnswer(lookup) ==
    /\ alive
    /\ probe.pc = "lookup"
    /\ LET k == probe.domain
           r == verify_domain(domains, db, k, lookup, now, TRUE)
       IN  probe' = [pc |-> "assign", domain |-> k, lookup |-> lookup,
                     before |-> domains[k],
                     after |-> r.domains[k],
                     todo |-> verify_domain_assignments(domains[k], lookup, now),
                     call |-> r.call]
    /\ lastOp' = Op("probe", probe.domain, "none", StatusOf(domains, probe.domain), TRUE)
    /\ UNCHANGED <<rw, boot, supabase, config, now, domains, db, lock, vqueue, dns, alive>>

\* One assignment to the record.
ProbeAssign ==
    /\ alive
    /\ probe.pc = "assign"
    /\ probe.todo # <<>>
    /\ LET k == probe.domain
           field == Head(probe.todo)[1]
           value == Head(probe.todo)[2]
       IN  domains' = [domains EXCEPT ![k] = [domains[k] EXCEPT ![field] = value]]
    /\ probe' = [probe EXCEPT !.todo = Tail(probe.todo)]
    /\ lastOp' = Op("probe", probe.domain, "none", probe.before.verification_status, TRUE)
    /\ UNCHANGED <<rw, boot, supabase, config, now, db, lock, vqueue, dns, alive>>

\* The store is called: db.update_domain_verification(..).await or
\* db.remove_domain(..).await is in flight.
ProbeCall ==
    /\ alive
    /\ probe.pc = "assign"
    /\ probe.todo = <<>>
    /\ probe.call # "none"
    /\ probe' = [probe EXCEPT !.pc = "store"]
    /\ lastOp' = Op("probe", probe.domain, "none", probe.before.verification_status, TRUE)
    /\ UNCHANGED <<rw, boot, supabase, config, now, domains, db, lock, vqueue, dns, alive>>

\* verify_domain returns, after the store answered if it was called.
ProbeReturn(store_ok) ==
    /\ alive
    /\ \/ probe.pc = "store"
       \/ probe.pc = "assign" /\ probe.todo = <<>> /\ probe.call = "none"
    /\ LET k == probe.domain IN
        /\ db' = IF probe.call = "update_domain_verification" /\ store_ok
                 THEN Database_update_domain_verification(db, k, TRUE, probe.lookup.ns, now)
                 ELSE IF probe.call = "remove_domain" /\ store_ok
                 THEN Database_remove_domain(db, k)
                 ELSE db
        /\ vqueue' = vqueue \ {k}
        /\ lastOp' = [Op("verify", k, Outcome(probe.lookup),
                         probe.before.verification_status, TRUE)
                      EXCEPT !.ns = probe.lookup.ns, !.call = probe.call]
    /\ probe' = ProbeIdle
    /\ UNCHANGED <<rw, boot, supabase, config, now, domains, lock, dns, alive>>

\* DnsApiServer::handle_api_request, POST /domains and DELETE /domains/{name}:
\* Ok(_) is answered 200, Err(e) 500 with the error's text.
http_status(is_ok) == IF is_ok THEN 200 ELSE 500

\* DnsServer::add_domain (POST /domains): manager.add_domain(..)?, then
\* sync_to_supabase, its error logged.
AdminAdd(d, ip, discord, store_ok) ==
    /\ alive
    /\ lock = "free"
    /\ LET r == add_domain(domains, db, d, ip, discord, store_ok) IN
        /\ domains' = r.domains
        /\ db' = r.db
        /\ supabase' \in IF r.is_ok THEN Pushed(r.db, supabase) ELSE {supabase}
        /\ lastOp' = [Op("add", to_lowercase(d), "none", StatusOf(domains, d), r.is_ok)
                      EXCEPT !.args = <<ip, discord>>,
                             !.changed = (r.domains # domains \/ r.db # db),
                             !.http = http_status(r.is_ok)]
    /\ UNCHANGED <<rw, boot, probe, config, now, lock, vqueue, dns, alive>>

\* DnsServer::remove_domain (DELETE /domains/{name}): manager.remove_domain(..)?,
\* then sync_to_supabase, its error logged.
AdminRemove(d, store_ok) ==
    /\ alive
    /\ lock = "free"
    /\ LET r == remove_domain(domains, db, d, store_ok) IN
        /\ domains' = r.domains
        /\ db' = r.db
        /\ supabase' \in IF r.is_ok THEN Pushed(r.db, supabase) ELSE {supabase}
        /\ lastOp' = [Op("remove", to_lowercase(d), "none", StatusOf(domains, d), r.is_ok)
                      EXCEPT !.http = http_status(r.is_ok)]
    /\ UNCHANGED <<rw, boot, probe, config, now, lock, vqueue, dns, alive>>

\* DnsServer::discover_domain: manager.discover_domain(..)?, then
\* sync_to_supabase, its error logged.
AdminDiscover(d, lookup, store_ok) ==
    /\ alive
    /\ lock = "free"
    /\ LET r == discover_domain(domains, db, d, lookup, now, store_ok) IN
        /\ domains' = r.domains
        /\ db' = r.db
        /\ supabase' \in IF r.is_ok THEN Pushed(r.db, supabase) ELSE {supabase}
        /\ lastOp' = [Op("discover", to_lowercase(d),
                         IF to_lowercase(d) \in DOMAIN domains
                         THEN "none" ELSE Outcome(lookup),
                         StatusOf(domains, d), r.is_ok)
                      EXCEPT !.call = r.call]
    /\ UNCHANGED <<rw, boot, probe, config, now, lock, vqueue, dns, alive>>

\* DnsServer::force_verification: manager.verify_domain(..), then
\* sync_to_supabase, its error logged.
AdminForceVerify(d, lookup, store_ok) ==
    /\ alive
    /\ lock = "free"
    /\ LET r == verify_domain(domains, db, d, lookup, now, store_ok) IN
        /\ domains' = r.domains
        /\ db' = r.db
        /\ supabase' \in Pushed(r.db, supabase)
        /\ lastOp' = [Op("verify", to_lowercase(d), Outcome(lookup),
                         StatusOf(domains, d), TRUE)
                      EXCEPT !.ns = lookup.ns, !.call = r.call]
    /\ UNCHANGED <<rw, boot, probe, config, now, lock, vqueue, dns, alive>>

\* DnsServer::run, sync loop: sync_to_supabase, its error logged, then
\* domain_manager.write().await.load_from_database(), its error logged.
SyncReload(store_ok) ==
    /\ alive
    /\ lock = "free"
    /\ supabase' \in Pushed(db, supabase)
    /\ LET r == load_from_database(domains, db, store_ok) IN
        /\ domains' = r.domains
        /\ lastOp' = Op("reload", NoName, "none", "Absent", r.is_ok)
    /\ UNCHANGED <<rw, boot, probe, config, now, db, lock, vqueue, dns, alive>>

\* What the remote directory can list: up to MaxRemote rows, in any order,
\* without a repeated row.  No row has been patched yet.
MaxRemote == 1

RemoteRows ==
    { SupabaseDomain(Name_A, TRUE, TRUE, FALSE),
      SupabaseDomain(Name_discord, TRUE, FALSE, FALSE),
      SupabaseDomain(Fqdn_a, FALSE, FALSE, FALSE) }

RemoteTables ==
    { rows \in UNION { [1..n -> RemoteRows] : n \in 0..MaxRemote } :
        \A i, j \in DOMAIN rows : rows[i] = rows[j] => i = j }

\* The state DnsServer::new leaves over a store: the boot pull
\* (sync_from_supabase, its error logged), then a new DomainManager loaded
\* from the store.
Booted(store, remote, n, calls) ==
    LET pulled == sync_from_supabase(store, remote, n, calls) IN
    [db |-> pulled.db,
     domains |-> load_from_database(EmptyMap, pulled.db, TRUE).domains,
     supabase |-> pulled.supabase]

\* The process is started again over the store it left (main: DnsServer::new,
\* then run).  A load that fails ends the start; it is tried again.
Restart(n, calls) ==
    /\ LET r == Booted(db, supabase, n, calls) IN
        /\ db' = r.db
        /\ domains' = r.domains
        /\ supabase' = r.supabase
        /\ lastOp' = Op("restart", NoName, "none", "Absent", TRUE)
    /\ lock' = "free"
    /\ vqueue' = {}
    /\ dns' = DnsIdle
    /\ probe' = ProbeIdle
    /\ boot' = Running
    /\ alive' = TRUE
    /\ UNCHANGED <<rw, config, now>>

(***************************************************************************)
(* main step by step: DnsServer::new's boot pull, its load of the          *)
(* registry, then run, which spawns the loops and serves.                  *)
(***************************************************************************)
\* main starts: no DomainManager yet, no task spawned.
ProcessStart ==
    /\ ~alive
    /\ boot.pc \in {"run", "exit"}
    /\ boot' = [pc |-> "pull"]
    /\ domains' = EmptyMap
    /\ lock' = "free"
    /\ vqueue' = {}
    /\ dns' = DnsIdle
    /\ probe' = ProbeIdle
    /\ lastOp' = Op("main", NoName, "none", "Absent", TRUE)
    /\ UNCHANGED <<rw, supabase, config, now, db, alive>>

\* DnsServer::new: supabase.sync_from_supabase(&database_arc), its error
\* logged.
BootPull(n, calls) ==
    /\ boot.pc = "pull"
    /\ LET r == sync_from_supabase(db, supabase, n, calls) IN
        /\ db' = r.db
        /\ supabase' = r.supabase
        /\ boot' = [pc |-> "load", pull_ok |-> r.is_ok]
        /\ lastOp' = Op("boot_pull", NoName, "none", "Absent", r.is_ok)
    /\ UNCHANGED <<rw, probe, config, now, domains, lock, vqueue, dns, alive>>

\* A variant of BootLoad that logs the load's error and goes on to run.
BootLoad_logging(store_ok) ==
    /\ boot.pc = "load"
    /\ LET r == load_from_database(EmptyMap, db, store_ok) IN
        /\ domains' = r.domains
        /\ boot' = [boot EXCEPT !.pc = "run"]
        /\ alive' = TRUE
        /\ lastOp' = Op("boot_load", NoName, "none", "Absent", r.is_ok)
    /\ UNCHANGED <<rw, supabase, probe, config, now, db, lock, vqueue, dns>>

\* DnsServer::new: domain_manager.load_from_database().await?, then Ok(Self)
\* and main calls run, which spawns the loops and starts the responder; an
\* error leaves new, and main exits.
BootLoad(store_ok) ==
    /\ boot.pc = "load"
    /\ LET r == load_from_database(EmptyMap, db, store_ok) IN
        /\ domains' = r.domains
        /\ boot' = [boot EXCEPT !.pc = IF r.is_ok THEN "run" ELSE "exit"]
        /\ alive' = r.is_ok
        /\ lastOp' = Op("boot_load", NoName, "none", "Absent", r.is_ok)
    /\ UNCHANGED <<rw, supabase, probe, config, now, db, lock, vqueue, dns>>

(***************************************************************************)
(* The lock itself (tokio::sync::RwLock): requests are served in the order *)
(* they were made; a read guard is granted while no write guard is held, a *)
(* write guard while no guard at all is held.                              *)
(***************************************************************************)
\* The task is in the wait queue.
Waiting(task) == \E i \in DOMAIN rw.queue : rw.queue[i][1] = task

\* The task holds a guard.
Holding(task) == lock = task \/ rw.readers[task] > 0

\* The step of its program the task is at.
AtStep(task) == Program(task)[rw.pc[task]]

\* The position after the task's step: back to the start after the last.
NextPc(task) == IF rw.pc[task] = Len(Program(task)) THEN 1 ELSE rw.pc[task] + 1

\* read().await or write().await is called: the task joins the wait queue.
LockRequest(task) ==
    /\ alive
    /\ AtStep(task) \in {"read", "write"}
    /\ ~Waiting(task)
    /\ rw' = [rw EXCEPT !.queue = Append(rw.queue, <<task, AtStep(task)>>)]
    /\ lastOp' = Op("lock_request", NoName, task, "Absent", TRUE)
    /\ UNCHANGED <<config, now, domains, db, lock, vqueue, dns, alive, supabase, probe, boot>>

\* The first of the queue gets its guard.
LockGrant ==
    /\ alive
    /\ rw.queue # <<>>
    /\ LET task == Head(rw.queue)[1]
           mode == Head(rw.queue)[2]
       IN  /\ lock = "free"
           /\ mode = "write" => \A t \in Tasks : rw.readers[t] = 0
           /\ lock' = IF mode = "write" THEN task ELSE lock
           /\ rw' = [rw EXCEPT !.queue = Tail(rw.queue),
                               !.readers[task] = IF mode = "read" THEN @ + 1 ELSE @,
                               !.pc[task] = NextPc(task)]
           /\ lastOp' = Op("lock_grant", NoName, task, "Absent", TRUE)
    /\ UNCHANGED <<config, now, domains, db, vqueue, dns, alive, supabase, probe, boot>>

\* The task works on the registry, or calls the remote: the call returns.
LockedWork(task) ==
    /\ alive
    /\ AtStep(task) \in {"work", "call"}
    /\ rw' = [rw EXCEPT !.pc[task] = NextPc(task)]
    /\ lastOp' = Op("lock_work", NoName, task, "Absent", TRUE)
    /\ UNCHANGED <<config, now, domains, db, lock, vqueue, dns, alive, supabase, probe, boot>>

\* The task's guard goes out of scope.
LockRelease(task) ==
    /\ alive
    /\ AtStep(task) = "release"
    /\ lock' = IF lock = task THEN "free" ELSE lock
    /\ rw' = [rw EXCEPT !.readers[task] = IF lock = task \/ @ = 0 THEN @ ELSE @ - 1,
                        !.pc[task] = NextPc(task)]
    /\ lastOp' = Op("lock_release", NoName, task, "Absent", TRUE)
    /\ UNCHANGED <<config, now, domains, db, vqueue, dns, alive, supabase, probe, boot>>

\* The control plane, its callers using the names of `names` and the store
\* answering as `store_oks` allows.
ControlNext(names, store_oks) ==
    \/ Tick
    \/ VerifierTick
    \/ \E k \in vqueue, lookup \in LookupResults, store_ok \in store_oks :
          VerifyNext(k, lookup, store_ok)
    \/ VerifierDone
    \/ \E d \in names, ip \in InputIps, discord \in BOOLEAN, store_ok \in store_oks :
          AdminAdd(d, ip, discord, store_ok)
    \/ \E d \in names, store_ok \in store_oks : AdminRemove(d, store_ok)
    \/ \E d \in names, lookup \in LookupResults, store_ok \in store_oks :
          AdminDiscover(d, lookup, store_ok)
    \/ \E d \in names, lookup \in LookupResults, store_ok \in store_oks :
          AdminForceVerify(d, lookup, store_ok)
    \/ \E store_ok \in store_oks : SyncReload(store_ok)

(***************************************************************************)
(* Actions of the UDP responder (start_dns_server's loop).  recv_from and  *)
(* send_to act on the socket alone; they are taken together with the       *)
(* handler step they precede or follow.  Each question's handler runs      *)
(* under a read lock of its own, so each question is a step.               *)
(***************************************************************************)
\* A datagram that Message::from_bytes rejects: handle_request returns the
\* error, the loop logs it, nothing is sent.
DnsDrop(m) ==
    /\ alive
    /\ dns.pc = "recv"
    /\ ~m.decodes
    /\ lastOp' = Op("dns_drop", NoName, "none", "Absent", FALSE)
    /\ UNCHANGED <<rw, boot, supabase, probe, config, now, domains, db, lock, vqueue, dns, alive>>

\* handle_dns_message for a request that reaches no handler: an opcode
\* other than Query (NotImp), or no question at all.
DnsReplyAtOnce(m) ==
    /\ alive
    /\ dns.pc = "recv"
    /\ m.decodes
    /\ m.op_code # "Query" \/ m.queries = <<>>
    /\ lastOp' = [Op("dns_reply", NoName, "none", "Absent", TRUE) EXCEPT
                     !.request = m,
                     !.sent = IF m.op_code # "Query"
                              THEN [NewResponse(m) EXCEPT !.response_code = "NotImp"]
                              ELSE NewResponse(m)]
    /\ UNCHANGED <<rw, boot, supabase, probe, config, now, domains, db, lock, vqueue, dns, alive>>

\* One question of the message in hand goes through handle_query; the first
\* question's step receives the datagram, the last one's sends the
\* response.  A panic in the handler ends the process.
DnsQuestion(request, response, qnext) ==
    /\ alive
    /\ read_granted(lock)
    /\ LET query == request.queries[qnext]
           r == handle_query(domains, query, response)
           last == qnext = Len(request.queries)
       IN  /\ alive' = ~r.panicked
           /\ dns' = IF last \/ r.panicked THEN DnsIdle
                     ELSE [pc |-> "query", request |-> request,
                           response |-> r.response, qnext |-> qnext + 1]
           /\ lastOp' = [Op("dns_query", to_lowercase(to_ascii(query.name)), "none",
                            StatusOf(domains, to_ascii(query.name)), ~r.panicked)
                         EXCEPT !.request = request,
                                !.query = query,
                                !.added = SubSeq(r.response.answers,
                                                 Len(response.answers) + 1,
                                                 Len(r.response.answers)),
                                !.code = r.response.response_code,
                                !.sent = IF last /\ ~r.panicked
                                         THEN r.response ELSE NoDatagram]
    /\ UNCHANGED <<rw, boot, supabase, probe, config, now, domains, db, lock, vqueue>>

DnsFirstQuestion(m) ==
    /\ dns.pc = "recv"
    /\ m.decodes
    /\ m.op_code = "Query" /\ m.queries # <<>>
    /\ DnsQuestion(m, NewResponse(m), 1)

DnsNextQuestion ==
    /\ dns.pc = "query"
    /\ DnsQuestion(dns.request, dns.response, dns.qnext)

DnsNext ==
    \/ DnsDrop(Malformed)
    \/ \E m \in Requests : DnsReplyAtOnce(m)
    \/ \E m \in Requests : DnsFirstQuestion(m)
    \/ DnsNextQuestion

(***************************************************************************)
(* The HTTP redirect server (start_http_redirect_server).  A request as    *)
(* the handler sees it: uri_host is req.uri().host(), the host of the      *)
(* request target without its port, None when the target is in origin form *)
(* ("GET / HTTP/1.1"); host is the value of the Host header.               *)
(***************************************************************************)
\* DnsConfig::default: redirect_target
redirect_target == "https://cybertemp.xyz"

HttpRequest(uri_host, host) == [uri_host |-> uri_host, host |-> host]

Host_a == <<"a", ".", "t">>
Host_A_80 == <<"A", ".", "T", ":", "8", "0">>
Host_b == <<"b", ".", "t">>

\* The requests of the model: "GET /" with Host: a.t and with Host: A.T:80,
\* "GET http://A.T:80/" and "GET http://b.t/".
HttpRequests ==
    { HttpRequest(None, Host_a),
      HttpRequest(None, Host_A_80),
      HttpRequest(Some(Name_A), Host_A_80),
      HttpRequest(Some(Host_b), Host_b) }

\* handle_http_request: req.uri().host().unwrap_or("").to_lowercase(), then
\* manager.get_domain(&host).await.is_some().
handle_http_request(ds, req, target) ==
    LET host == to_lowercase(IF req.uri_host = None THEN <<>> ELSE req.uri_host[1])
        is_our_domain == get_domain(ds, host) # None
    IN  IF is_our_domain
        THEN [status |-> 301, location |-> Some(target), body |-> ""]
        ELSE [status |-> 404, location |-> None, body |-> "Not found"]

\* A variant of HttpRedirect that takes the name of a redirected request
\* out of the registry.
HttpRedirect_forgetting(req) ==
    /\ alive
    /\ read_granted(lock)
    /\ LET r == handle_http_request(domains, req, redirect_target) IN
        /\ lastOp' = [Op("redirect", NoName, "none", "Absent", TRUE) EXCEPT
                         !.http = r.status,
                         !.http_request = req,
                         !.http_response = r]
        /\ domains' = IF r.status = 301
                      THEN [k \in DOMAIN domains \ {to_lowercase(req.uri_host[1])} |->
                               domains[k]]
                      ELSE domains
    /\ UNCHANGED <<rw, boot, supabase, probe, config, now, db, lock, vqueue, dns, alive>>

\* One request served by handle_http_request, under a read lock of the
\* registry.
HttpRedirect(req) ==
    /\ alive
    /\ read_granted(lock)
    /\ LET r == handle_http_request(domains, req, redirect_target) IN
        lastOp' = [Op("redirect", NoName, "none", "Absent", TRUE) EXCEPT
                      !.http = r.status,
                      !.http_request = req,
                      !.http_response = r]
    /\ UNCHANGED <<rw, boot, supabase, probe, config, now, domains, db, lock, vqueue, dns, alive>>

(***************************************************************************)
(* Specifications.                                                         *)
(***************************************************************************)
\* The control plane: registry, store, verifier, reload loop, admin
\* operations, with store failures and every configured grace period.
Next == ControlNext(InputNames, BOOLEAN)

Spec == Init /\ [][Next]_vars

\* The responder beside the control plane.  Admin callers use the fully
\* qualified spellings, the only ones a decoded question name can match;
\* the store does not fail and the configuration is the default one.
InitDns == InitWith({48}, InitStores(Fqdn_a))

NextDns == DnsNext \/ ControlNext(FqdnNames, {TRUE})

SpecDns == InitDns /\ [][NextDns]_vars

\* The responder beside the control plane, the admin callers spelling the
\* name as the remote directory and the API's examples do: without the
\* final dot.
InitPlain == InitWith({48}, InitStores(Name_a))

NextPlain == DnsNext \/ ControlNext({Name_a}, {TRUE})

SpecPlain == InitPlain /\ [][NextPlain]_vars

\* The registry's keys and addresses: from an empty store, the boot pull,
\* then add, discover and the reload under every spelling, and the process
\* started again over the store it left.
InitRegistry ==
    /\ config \in [grace_period_hours : {48}]
    /\ now = 0
    /\ \E remote \in RemoteTables :
       \E n \in 0..Len(remote), calls \in RemoteCalls(remote) :
          LET r == Booted(EmptyMap, remote, n, calls) IN
          /\ db = r.db
          /\ domains = r.domains
          /\ supabase = r.supabase
    /\ lock = "free"
    /\ vqueue = {}
    /\ dns = DnsIdle
    /\ alive = TRUE
    /\ probe = ProbeIdle
    /\ boot = Running
    /\ rw = RwIdle
    /\ lastOp = Op("new", NoName, "none", "Absent", TRUE)

NextRegistry ==
    \/ \E n \in 0..Len(supabase), calls \in RemoteCalls(supabase) : Restart(n, calls)
    \/ \E d \in SpelledNames, ip \in InputIps, discord \in BOOLEAN, store_ok \in BOOLEAN :
          AdminAdd(d, ip, discord, store_ok)
    \/ \E d \in SpelledNames, lookup \in LookupResults, store_ok \in BOOLEAN :
          AdminDiscover(d, lookup, store_ok)
    \/ \E store_ok \in BOOLEAN : SyncReload(store_ok)

SpecRegistry == InitRegistry /\ [][NextRegistry]_vars

\* The remote directory beside the store and the registry: the process
\* starts over a store an earlier run left and a remote table of two rows,
\* then add, remove, force_verification, the sync loop and restarts, with
\* failures of the store and of the remote's calls.
RemoteStarts ==
    { <<SupabaseDomain(Name_a, TRUE, FALSE, TRUE),
        SupabaseDomain(Name_discord, TRUE, TRUE, FALSE)>>,
      <<SupabaseDomain(Name_A, TRUE, FALSE, FALSE),
        SupabaseDomain(Fqdn_a, FALSE, FALSE, FALSE)>>,
      <<SupabaseDomain(Name_a, TRUE, TRUE, FALSE),
        SupabaseDomain(Name_a, TRUE, FALSE, FALSE)>> }

InitRemote ==
    /\ config \in [grace_period_hours : {48}]
    /\ now = 0
    /\ \E remote \in RemoteStarts, store \in InitStores(Name_a) :
       \E n \in 0..Len(remote), calls \in RemoteCalls(remote) :
          LET r == Booted(store, remote, n, calls) IN
          /\ db = r.db
          /\ domains = r.domains
          /\ supabase = r.supabase
    /\ lock = "free"
    /\ vqueue = {}
    /\ dns = DnsIdle
    /\ alive = TRUE
    /\ probe = ProbeIdle
    /\ boot = Running
    /\ rw = RwIdle
    /\ lastOp = Op("new", NoName, "none", "Absent", TRUE)

NextRemote ==
    \/ \E n \in 0..Len(supabase), calls \in RemoteCalls(supabase) : Restart(n, calls)
    \/ \E ip \in InputIps, discord \in BOOLEAN, store_ok \in BOOLEAN :
          AdminAdd(Name_a, ip, discord, store_ok)
    \/ \E store_ok \in BOOLEAN : AdminRemove(Name_a, store_ok)
    \/ \E lookup \in LookupResults, store_ok \in BOOLEAN :
          AdminForceVerify(Name_a, lookup, store_ok)
    \/ \E store_ok \in BOOLEAN : SyncReload(store_ok)

SpecRemote == InitRemote /\ [][NextRemote]_vars

\* The two front doors, the responder and the redirect server, beside the
\* admin operations: the process starts over a remote table that lists the
\* name with and without its final dot, and the callers use both spellings.
FrontNames == {Name_a, Fqdn_a}

FrontStart ==
    <<SupabaseDomain(Name_a, TRUE, FALSE, FALSE),
      SupabaseDomain(Fqdn_a, TRUE, FALSE, FALSE)>>

InitFront ==
    /\ config \in [grace_period_hours : {48}]
    /\ now = 0
    /\ \E n \in 0..Len(FrontStart) :
          LET r == Booted(EmptyMap, FrontStart, n, Len(FrontStart) + 1) IN
          /\ db = r.db
          /\ domains = r.domains
          /\ supabase = r.supabase
    /\ lock = "free"
    /\ vqueue = {}
    /\ dns = DnsIdle
    /\ alive = TRUE
    /\ probe = ProbeIdle
    /\ boot = Running
    /\ rw = RwIdle
    /\ lastOp = Op("new", NoName, "none", "Absent", TRUE)

NextFront ==
    \/ DnsNext
    \/ \E req \in HttpRequests : HttpRedirect(req)
    \/ \E d \in FrontNames : AdminRemove(d, TRUE)
    \/ \E d \in FrontNames, lookup \in LookupResults : AdminForceVerify(d, lookup, TRUE)

SpecFront == InitFront /\ [][NextFront]_vars

\* The registry's lock: the verifier's run step by step beside the
\* responder (messages of one and of two questions for "a.t"), the redirect
\* server and the admin's add and remove.
LockRequests ==
    { Request(4660, "Query", TRUE, <<Query(Name_a, "A")>>),
      Request(4660, "Query", TRUE, <<Query(Name_a, "A"), Query(Name_a, "MX")>>) }

InitLock == InitWith({48}, InitStores(Fqdn_a))

NextLock ==
    \/ Tick
    \/ VerifierTick
    \/ \E k \in vqueue : ProbeLookup(k)
    \/ \E lookup \in LookupResults : ProbeAnswer(lookup)
    \/ ProbeAssign
    \/ ProbeCall
    \/ ProbeReturn(TRUE)
    \/ VerifierDone
    \/ \E ip \in InputIps : AdminAdd(Fqdn_a, ip, FALSE, TRUE)
    \/ AdminRemove(Fqdn_a, TRUE)
    \/ \E m \in LockRequests : DnsFirstQuestion(m)
    \/ DnsNextQuestion
    \/ HttpRedirect(HttpRequest(Some(Fqdn_a), Fqdn_a))

SpecLock == InitLock /\ [][NextLock]_vars

\* The mail subdomain: a record under "a.t." is added, as a discord domain
\* or not, records under "mail.a.t.", "mail.mail.a.t." and "mail." are
\* discovered, all are removed, and A questions ask for each of the four
\* names.
Wire_mail == <<"m", "a", "i", "l">>
Wire_mail_a == <<"m", "a", "i", "l", ".">> \o Name_a
Wire_mail_mail_a == <<"m", "a", "i", "l", ".">> \o Wire_mail_a

MailWireNames == {Wire_mail, Wire_mail_a, Wire_mail_mail_a}

MailNames == { to_ascii(w) : w \in MailWireNames }

MailRequests ==
    { Request(4660, "Query", TRUE, <<Query(w, "A")>>) : w \in MailWireNames \cup {Name_a} }
    \cup { Request(4660, "Query", TRUE, <<Query(Wire_mail_a, "A"), Query(Name_a, "A")>>) }

InitMail == InitWith({48}, {EmptyMap})

NextMail ==
    \/ \E discord \in BOOLEAN : AdminAdd(Fqdn_a, DefaultMailIp, discord, TRUE)
    \/ \E d \in MailNames : AdminDiscover(d, LookupOk(OursReply), TRUE)
    \/ \E d \in MailNames \cup {Fqdn_a} : AdminRemove(d, TRUE)
    \/ \E m \in MailRequests : DnsFirstQuestion(m)
    \/ DnsNextQuestion

SpecMail == InitMail /\ [][NextMail]_vars

\* The start of the process step by step, over a store an earlier run left
\* and a remote table of one active row; once run is reached, the
\* responder, the redirect server, the verifier and the sync loop.
BootRemote == << SupabaseDomain(Fqdn_a, TRUE, FALSE, FALSE) >>

InitBoot ==
    /\ config \in [grace_period_hours : {48}]
    /\ now = 0
    /\ db \in InitStores(Fqdn_a)
    /\ domains = EmptyMap
    /\ lock = "free"
    /\ vqueue = {}
    /\ dns = DnsIdle
    /\ alive = FALSE
    /\ supabase = BootRemote
    /\ probe = ProbeIdle
    /\ boot = [pc |-> "pull"]
    /\ rw = RwIdle
    /\ lastOp = Op("main", NoName, "none", "Absent", TRUE)

NextBoot ==
    \/ ProcessStart
    \/ \E n \in 0..Len(supabase), calls \in RemoteCalls(supabase) : BootPull(n, calls)
    \/ \E store_ok \in BOOLEAN : BootLoad(store_ok)
    \/ VerifierTick
    \/ \E k \in vqueue, lookup \in LookupResults : VerifyNext(k, lookup, TRUE)
    \/ VerifierDone
    \/ \E store_ok \in BOOLEAN : SyncReload(store_ok)
    \/ \E m \in LockRequests : DnsFirstQuestion(m)
    \/ DnsNextQuestion
    \/ HttpRedirect(HttpRequest(Some(Fqdn_a), Fqdn_a))

SpecBoot == InitBoot /\ [][NextBoot]_vars

\* The verifier running for ever beside the responder and the reload: the
\* verification loop's interval keeps ticking, and a run once begun goes on
\* to its end (every lookup returns, if only by the resolver's timeout).
LiveRequests == { Request(4660, "Query", TRUE, <<Query(Name_a, "A")>>) }

InitLive == InitWith({48}, InitStores(Fqdn_a))

LiveVerifyNext == \E k \in vqueue, lookup \in LookupResults : VerifyNext(k, lookup, TRUE)

NextLive ==
    \/ Tick
    \/ VerifierTick
    \/ LiveVerifyNext
    \/ VerifierDone
    \/ SyncReload(TRUE)
    \/ \E m \in LiveRequests : DnsFirstQuestion(m)

SpecLive ==
    /\ InitLive
    /\ [][NextLive]_vars
    /\ WF_vars(VerifierTick)
    /\ WF_vars(LiveVerifyNext)
    /\ WF_vars(VerifierDone)

\* The store's rows over the life of a domain: the process starts over a
\* store an earlier run left and a remote table that lists the name as
\* active; then add, remove, discover, the verifier with the clock running,
\* the sync loop and restarts with their boot pull.
RowsRemote == << SupabaseDomain(Name_a, TRUE, FALSE, FALSE) >>

InitRows ==
    /\ config \in [grace_period_hours : {48}]
    /\ now = 0
    /\ \E store \in InitStores(Name_a) :
       \E n \in 0..Len(RowsRemote), calls \in RemoteCalls(RowsRemote) :
          LET r == Booted(store, RowsRemote, n, calls) IN
          /\ db = r.db
          /\ domains = r.domains
          /\ supabase = r.supabase
    /\ lock = "free"
    /\ vqueue = {}
    /\ dns = DnsIdle
    /\ alive = TRUE
    /\ probe = ProbeIdle
    /\ boot = Running
    /\ rw = RwIdle
    /\ lastOp = Op("new", NoName, "none", "Absent", TRUE)

NextRows ==
    \/ Tick
    \/ \E n \in 0..Len(supabase), calls \in RemoteCalls(supabase) : Restart(n, calls)
    \/ \E ip \in InputIps : AdminAdd(Name_a, ip, FALSE, TRUE)
    \/ \E store_ok \in BOOLEAN : AdminRemove(Name_a, store_ok)
    \/ \E lookup \in LookupResults : AdminDiscover(Name_a, lookup, TRUE)
    \/ VerifierTick
    \/ \E k \in vqueue, lookup \in LookupResults : VerifyNext(k, lookup, TRUE)
    \/ VerifierDone
    \/ \E store_ok \in BOOLEAN : SyncReload(store_ok)

SpecRows == InitRows /\ [][NextRows]_vars

\* The tasks contending for the lock.  A guard that can be granted is
\* granted, work and calls under way come to their end, and a guard at the
\* end of its scope is dropped; a task need not ask for the lock again.
InitWait == InitWith({48}, {EmptyMap})

NextWait ==
    \/ \E task \in Tasks : LockRequest(task)
    \/ LockGrant
    \/ \E task \in Tasks : LockedWork(task)
    \/ \E task \in Tasks : LockRelease(task)

SpecWait ==
    /\ InitWait
    /\ [][NextWait]_vars
    /\ WF_vars(LockGrant)
    /\ \A task \in Tasks : WF_vars(LockedWork(task))
    /\ \A task \in Tasks : WF_vars(LockRelease(task))

(***************************************************************************)
(* Properties.  A step is recognised by the label it leaves in lastOp';    *)
(* the unprimed variables are the state the operation started from.        *)
(***************************************************************************)
\* The step is a probe (verify_domain) of the record under key k, and the
\* lookup read as outcome.
ProbeStep(k, outcome) ==
    /\ lastOp'.op = "verify"
    /\ lastOp'.domain = k
    /\ lastOp'.outcome = outcome
    /\ k \in DOMAIN domains

\* The step handled a question of the given type.
QuestionStep(query_type) ==
    /\ lastOp'.op = "dns_query"
    /\ lastOp'.query.query_type = query_type

\* The record under k is one that ran out of its grace period.
Demoted(ds, k) ==
    /\ k \in DOMAIN ds
    /\ ds[k].verification_status = "FailedVerification"
    /\ ~ds[k].enabled

\* C1: a question's step adds A, MX, TXT or NS answers to the response only
\* if, when the question was processed, the registry held a record under
\* the question's (lower-cased) name with enabled = true and status
\* Verified.
C1_AnswersOnlyWhenVerifiedAndEnabled ==
    [][ (lastOp'.op = "dns_query" /\ lastOp'.added # <<>>) =>
            LET found == get_domain(domains, to_ascii(lastOp'.query.name)) IN
                /\ found # None
                /\ found[1].enabled
                /\ found[1].verification_status = "Verified"
                /\ \A i \in DOMAIN lastOp'.added :
                       lastOp'.added[i].rtype \in {"A", "MX", "TXT", "NS"} ]_vars

\* C1, its case: a response that carries answers has been sent.
C1_Witness ==
    /\ lastOp.op = "dns_query"
    /\ lastOp.added # <<>>
    /\ lastOp.sent # NoDatagram
    /\ lastOp.sent.answers # <<>>

\* C2 as the specification states it: in every state, a record's
\* grace_period_ends is set exactly when its status is GracePeriod.
C2_GraceEndsIffGracePeriod ==
    \A k \in DOMAIN domains :
        (domains[k].grace_period_ends # None)
            <=> (domains[k].verification_status = "GracePeriod")

C4_OnlyAProbeRestoresVerified ==
    [][ \A k \in DOMAIN domains \cap DOMAIN domains' :
            ( /\ domains[k].verification_status \in {"GracePeriod", "FailedVerification"}
              /\ domains'[k].verification_status = "Verified" )
                => ProbeStep(k, "ok") ]_vars

\* C5: a probe that finds our nameservers moves a record of any of the four
\* statuses to Verified, clears grace_period_ends, sets last_verified to the
\* probe's time and calls the store's update_domain_verification(name, true,
\* observed nameservers) (a failure of the call is swallowed); so a second
\* such probe leaves the record Verified with its last_verified no earlier.
C5_OkProbeVerifies ==
    [][ \A k \in DOMAIN domains :
            ProbeStep(k, "ok") =>
                /\ domains[k].verification_status \in Statuses
                /\ domains'[k].verification_status = "Verified"
                /\ domains'[k].grace_period_ends = None
                /\ domains'[k].last_verified = Some(now)
                /\ lastOp'.call = "update_domain_verification"
                /\ db' \in {db, Database_update_domain_verification(
                                    db, k, TRUE, lastOp'.ns, now)}
                /\ (domains[k].verification_status = "Verified"
                    /\ domains[k].last_verified # None)
                        => domains'[k].last_verified[1] >= domains[k].last_verified[1] ]_vars

\* C5, its case: a record in GracePeriod has been probed, our nameservers
\* were found, and the store took the update.
C5_Witness ==
    /\ lastOp.op = "verify"
    /\ lastOp.outcome = "ok"
    /\ lastOp.before = "GracePeriod"
    /\ lastOp.domain \in DOMAIN domains
    /\ domains[lastOp.domain].verification_status = "Verified"
    /\ domains[lastOp.domain].grace_period_ends = None
    /\ lastOp.domain \in DOMAIN db
    /\ db[lastOp.domain].last_verified = Some(now)
    /\ now > 0

\* C6 as the specification states it: a probe without our nameservers of a
\* Verified record moves it to GracePeriod with grace_period_ends = now +
\* the configured grace period (grace_period_hours), whatever its value.
C6_GraceFromConfiguration ==
    [][ \A k \in DOMAIN domains :
            (ProbeStep(k, "notok") /\ domains[k].verification_status = "Verified") =>
                /\ domains'[k].verification_status = "GracePeriod"
                /\ domains'[k].grace_period_ends = Some(now + config.grace_period_hours) ]_vars

\* C7 as the specification states it: a probe without our nameservers
\* leaves a PendingVerification record PendingVerification and a
\* FailedVerification record FailedVerification.
C7_NotOkKeepsPendingAndFailed ==
    [][ \A k \in DOMAIN domains :
            ( /\ ProbeStep(k, "notok")
              /\ domains[k].verification_status \in {"PendingVerification", "FailedVerification"} )
                => domains'[k].verification_status = domains[k].verification_status ]_vars

\* C7, amended: a probe without our nameservers leaves a PendingVerification
\* record PendingVerification and moves a FailedVerification record to
\* PendingVerification; neither enabled nor grace_period_ends changes.
C7_NotOkMakesPending ==
    [][ \A k \in DOMAIN domains :
            ( /\ ProbeStep(k, "notok")
              /\ domains[k].verification_status \in {"PendingVerification", "FailedVerification"} )
                => /\ domains'[k].verification_status = "PendingVerification"
                   /\ domains'[k].enabled = domains[k].enabled
                   /\ domains'[k].grace_period_ends = domains[k].grace_period_ends ]_vars

\* C7, its case: a FailedVerification record has been probed, the lookup
\* answered without our nameservers, and the record is PendingVerification.
C7_Witness ==
    /\ lastOp.op = "verify"
    /\ lastOp.outcome = "notok"
    /\ lastOp.before = "FailedVerification"
    /\ lastOp.domain \in DOMAIN domains
    /\ domains[lastOp.domain].verification_status = "PendingVerification"

\* C8 as the specification states it: when the lookup fails a Verified
\* record becomes PendingVerification and a record of any other status
\* becomes FailedVerification.
C8_ErrorParksVerified ==
    [][ \A k \in DOMAIN domains :
            ProbeStep(k, "error") =>
                domains'[k].verification_status =
                    IF domains[k].verification_status = "Verified"
                    THEN "PendingVerification" ELSE "FailedVerification" ]_vars

\* C8, amended: when the lookup fails a record of any of the four statuses
\* becomes FailedVerification; the failure is not surfaced: the probe
\* reports no error, calls no store method, and a verifier run goes on
\* with the keys left in its snapshot.
C8_ErrorFailsEveryStatus ==
    [][ \A k \in DOMAIN domains :
            ProbeStep(k, "error") =>
                /\ domains'[k].verification_status = "FailedVerification"
                /\ lastOp'.is_ok
                /\ lastOp'.call = "none"
                /\ db' = db
                /\ lock' = lock
                /\ lock = "verifier" => vqueue' = vqueue \ {k} ]_vars

\* C8, its case: a Verified record has been probed, the lookup failed, and
\* the record is FailedVerification.
C8_Witness ==
    /\ lastOp.op = "verify"
    /\ lastOp.outcome = "error"
    /\ lastOp.before = "Verified"
    /\ lastOp.domain \in DOMAIN domains
    /\ domains[lastOp.domain].verification_status = "FailedVerification"

\* C9 as the specification states it: after a probe of a record in the
\* registry its last_verified is the probe's time and its nameservers are
\* the list the probe observed, the empty list when the lookup failed.
C9_ProbeRecordsObservedList ==
    [][ \A k \in DOMAIN domains :
            (\E outcome \in {"ok", "notok", "error"} : ProbeStep(k, outcome)) =>
                /\ domains'[k].last_verified = Some(now)
                /\ domains'[k].nameservers = lastOp'.ns ]_vars

\* C9, amended: after a probe of a record in the registry its last_verified
\* is the probe's time; its nameservers are the list the probe observed
\* when the lookup answered, and are left as they were when it failed.
C9_ProbeKeepsListOnError ==
    [][ \A k \in DOMAIN domains :
            (\E outcome \in {"ok", "notok", "error"} : ProbeStep(k, outcome)) =>
                /\ domains'[k].last_verified = Some(now)
                /\ domains'[k].nameservers =
                       IF lastOp'.outcome = "error"
                       THEN domains[k].nameservers ELSE lastOp'.ns ]_vars

\* C9, its case: a record with a recorded nameserver list has been probed at
\* a later time, the lookup failed, and the list is still recorded.
C9_Witness ==
    /\ lastOp.op = "verify"
    /\ lastOp.outcome = "error"
    /\ lastOp.domain \in DOMAIN domains
    /\ domains[lastOp.domain].nameservers # <<>>
    /\ domains[lastOp.domain].last_verified = Some(now)
    /\ now > 0

\* C10: after remove_domain(d) succeeded, for d in any case spelling of a
\* name of the registry, get_domain finds nothing under any spelling of d
\* and the store's row for the lower-cased name has enabled = false.
C10_RemoveDisablesAndForgets ==
    [][ (lastOp'.op = "remove" /\ lastOp'.is_ok) =>
            /\ lastOp'.domain \in DOMAIN domains
            /\ \A d \in InputNames :
                   to_lowercase(d) = lastOp'.domain => get_domain(domains', d) = None
            /\ lastOp'.domain \in DOMAIN db'
            /\ ~db'[lastOp'.domain].enabled ]_vars

\* C10, its case: a name of the registry has been removed and the store
\* took the write.
C10_Witness ==
    /\ lastOp.op = "remove"
    /\ lastOp.is_ok
    /\ lastOp.before # "Absent"
    /\ lastOp.domain \notin DOMAIN domains
    /\ lastOp.domain \in DOMAIN db
    /\ ~db[lastOp.domain].enabled

\* C11: remove_domain(d) for a name that is not in the registry returns the
\* "not found" error, which DELETE /domains/{name} answers as an error
\* response, and leaves the registry's map and the store as they were.
C11_RemoveOfAbsentNameFails ==
    [][ (lastOp'.op = "remove" /\ lastOp'.before = "Absent") =>
            /\ lastOp'.domain \notin DOMAIN domains
            /\ ~lastOp'.is_ok
            /\ lastOp'.http = 500
            /\ domains' = domains
            /\ db' = db ]_vars

\* C11, its case: a name that is not in the registry, but whose row in the
\* store is still enabled, has been asked to be removed.
C11_Witness ==
    /\ lastOp.op = "remove"
    /\ lastOp.before = "Absent"
    /\ ~lastOp.is_ok
    /\ lastOp.domain \notin DOMAIN domains
    /\ lastOp.domain \in DOMAIN db
    /\ db[lastOp.domain].enabled

\* C12: from every reachable state, add_domain(d, ip, discord) run twice
\* leaves the registry's map and the store exactly as the first run left
\* them (both runs succeeding).
C12_AddTwiceIsAddOnce ==
    \A d \in InputNames, ip \in InputIps, discord \in BOOLEAN :
        LET once == add_domain(domains, db, d, ip, discord, TRUE)
            twice == add_domain(once.domains, once.db, d, ip, discord, TRUE)
        IN  /\ once.is_ok
            /\ twice.is_ok
            /\ twice.domains = once.domains
            /\ twice.db = once.db

\* C12, its case: an add of a name has succeeded on the state an equal add
\* had left, and changed neither the map nor the store.
C12_Witness ==
    /\ lastOp.op = "add"
    /\ lastOp.is_ok
    /\ lastOp.before = "PendingVerification"
    /\ ~lastOp.changed
    /\ lastOp.args = <<"9.9.9.9", FALSE>>
    /\ lastOp.domain \in DOMAIN domains
    /\ domains[lastOp.domain].ip = "9.9.9.9"
    /\ db[lastOp.domain].ip_address = "9.9.9.9"

C14_AddLeavesRowEnabled ==
    [][ (lastOp'.op = "add" /\ lastOp'.http = 200) =>
            /\ lastOp'.domain \in DOMAIN db'
            /\ db'[lastOp'.domain].enabled ]_vars

RECURSIVE Trimmed(_)
Trimmed(s) ==
    IF s # <<>> /\ s[1] = " " THEN Trimmed(Tail(s))
    ELSE IF s # <<>> /\ s[Len(s)] = " " THEN Trimmed(SubSeq(s, 1, Len(s) - 1))
    ELSE s

Canonical(s) ==
    LET t == to_lowercase(Trimmed(s)) IN
    IF t # <<>> /\ t[Len(t)] = "." THEN SubSeq(t, 1, Len(t) - 1) ELSE t

\* C16 as the specification states it: every key of the registry's map and
\* every record's domain field is a canonical name, and get_domain finds the
\* record under every spelling that canonicalizes to its key.
C16_KeysAreCanonical ==
    \A k \in DOMAIN domains :
        /\ Canonical(k) = k
        /\ domains[k].domain = k
        /\ \A d \in SpelledNames :
               Canonical(d) = k => get_domain(domains, d) = Some(domains[k])

\* The question the step handled was the only one of its message.
SingleQuestion == Len(lastOp'.request.queries) = 1

\* The keys of the registry that are the domain a question names.
Named(ds, wire_name) ==
    {k \in DOMAIN ds : Canonical(k) = Canonical(to_ascii(wire_name))}

\* C17 as the specification states it: a single-question A query that names
\* the domain of an enabled, Verified record whose name does not start with
\* "mail." gets NOERROR and exactly one answer: an A record owned by the
\* question name, with TTL default_ttl and the record's ip as address.
C17_AQueryAnswersTheRecordsIp ==
    [][ (QuestionStep("A") /\ SingleQuestion) =>
            \A k \in Named(domains, lastOp'.query.name) :
                ( /\ gate_open(domains[k])
                  /\ ~starts_with(k, <<"m", "a", "i", "l", ".">>) )
                    => /\ lastOp'.sent # NoDatagram
                       /\ lastOp'.sent.response_code = "NoError"
                       /\ Len(lastOp'.sent.answers) = 1
                       /\ lastOp'.sent.answers[1].rtype = "A"
                       /\ Canonical(lastOp'.sent.answers[1].name)
                              = Canonical(to_ascii(lastOp'.query.name))
                       /\ lastOp'.sent.answers[1].ttl = default_ttl
                       /\ lastOp'.sent.answers[1].rdata = domains[k].ip ]_vars

\* C18 as the specification states it: an MX query for an enabled, Verified
\* record gets exactly two MX answers of preference mx_priority and the same
\* exchange, owned by the question name and by "*." before it; the exchange
\* is mail.{qname}.discord.cybertemp.xyz for a discord record and the
\* mail_server template with {domain} replaced by qname otherwise.
C18_MxQueryAnswersTwoRecords ==
    [][ QuestionStep("MX") =>
            \A k \in Named(domains, lastOp'.query.name) :
                gate_open(domains[k]) =>
                    LET qname == Canonical(to_ascii(lastOp'.query.name))
                        exchange ==
                            IF domains[k].discord
                            THEN <<"m", "a", "i", "l", ".">> \o qname \o
                                 <<".", "d", "i", "s", "c", "o", "r", "d", ".", "c", "y",
                                   "b", "e", "r", "t", "e", "m", "p", ".", "x", "y", "z">>
                            ELSE replace(mail_server,
                                         <<"{", "d", "o", "m", "a", "i", "n", "}">>, qname)
                        added == lastOp'.added
                    IN  /\ lastOp'.is_ok
                        /\ lastOp'.code = "NoError"
                        /\ Len(added) = 2
                        /\ \A i \in 1..2 :
                               /\ added[i].rtype = "MX"
                               /\ added[i].rdata.preference = mx_priority
                               /\ Canonical(added[i].rdata.exchange) = exchange
                        /\ Canonical(added[1].name) = qname
                        /\ Canonical(added[2].name) = <<"*", ".">> \o qname ]_vars

\* C19 as the specification states it: a single-question A, MX, TXT or NS
\* query gets REFUSED and no answer when the registry holds a record for the
\* name that is not (enabled and Verified), and NOERROR and no answer when
\* the registry holds no record for the name.
C19_RefusedOrEmpty ==
    [][ ( /\ lastOp'.op = "dns_query"
          /\ lastOp'.query.query_type \in {"A", "MX", "TXT", "NS"}
          /\ SingleQuestion ) =>
            LET held == Named(domains, lastOp'.query.name) IN
                /\ held = {} =>
                       /\ lastOp'.sent # NoDatagram
                       /\ lastOp'.sent.response_code = "NoError"
                       /\ lastOp'.sent.answers = <<>>
                /\ \A k \in held :
                       ~gate_open(domains[k]) =>
                           /\ lastOp'.sent # NoDatagram
                           /\ lastOp'.sent.response_code = "Refused"
                           /\ lastOp'.sent.answers = <<>> ]_vars

\* C20: every response sent carries the id, the opcode and the RD flag of
\* its request and is a response (QR = 1); a request of another opcode than
\* Query is answered NotImp with no answer, no handler and no look at the
\* registry; a datagram that does not decode is answered nothing.
C20_ResponseMirrorsRequest ==
    [][ /\ lastOp'.sent # NoDatagram =>
              /\ lastOp'.request \in Requests
              /\ lastOp'.sent.id = lastOp'.request.id
              /\ lastOp'.sent.op_code = lastOp'.request.op_code
              /\ lastOp'.sent.recursion_desired = lastOp'.request.recursion_desired
              /\ lastOp'.sent.message_type = "Response"
        /\ (lastOp'.request # NoDatagram /\ lastOp'.request.op_code # "Query") =>
              /\ lastOp'.op = "dns_reply"
              /\ lastOp'.sent # NoDatagram
              /\ lastOp'.sent.response_code = "NotImp"
              /\ lastOp'.sent.answers = <<>>
              /\ UNCHANGED <<domains, db, lock, vqueue, dns, alive>>
        /\ lastOp'.op = "dns_drop" =>
              /\ lastOp'.sent = NoDatagram
              /\ UNCHANGED <<domains, db, lock, vqueue, dns, alive>> ]_vars

\* C20, its case: a request of opcode Status, with RD set, has been answered
\* NotImp while the verifier held the registry's lock.
C20_Witness ==
    /\ lastOp.op = "dns_reply"
    /\ lastOp.request # NoDatagram
    /\ lastOp.request.op_code = "Status"
    /\ lastOp.request.recursion_desired
    /\ lastOp.sent.response_code = "NotImp"
    /\ lastOp.sent.recursion_desired
    /\ lock = "verifier"

\* C21 as the specification states it: after load_from_database succeeded,
\* the keys of the registry's map are exactly the store's rows with
\* enabled = true, and every record is Verified when its row's verified flag
\* is true and PendingVerification otherwise, with no grace deadline.
C21_ReloadReplacesMap ==
    [][ (lastOp'.op = "reload" /\ lastOp'.is_ok) =>
            /\ DOMAIN domains' = Database_get_all_domains(db')
            /\ \A k \in DOMAIN domains' :
                  /\ domains'[k].verification_status =
                         IF db'[k].verified THEN "Verified" ELSE "PendingVerification"
                  /\ domains'[k].grace_period_ends = None ]_vars

\* C22: discover_domain of a name the registry does not hold, whose lookup
\* answered a nameserver that contains one of ours, calls the store's
\* add_domain once and, the call succeeding, inserts exactly one record:
\* Verified, enabled, no grace deadline, discord = the name contains
\* "discord", ip = the Discord mail address if so and the default one
\* otherwise.  When the registry holds the name, or the lookup failed or
\* answered no nameserver of ours, the registry and the store are unchanged,
\* no store method is called and Ok is returned.
C22_DiscoverInsertsVerifiedRecord ==
    [][ lastOp'.op = "discover" =>
            LET k == lastOp'.domain
                discord == contains(k, <<"d", "i", "s", "c", "o", "r", "d">>)
                ip == IF discord THEN DiscordMailIp ELSE DefaultMailIp
            IN  IF lastOp'.before = "Absent" /\ lastOp'.outcome = "ok"
                THEN /\ lastOp'.call = "add_domain"
                     /\ lastOp'.is_ok =>
                           /\ DOMAIN domains' = DOMAIN domains \cup {k}
                           /\ \A j \in DOMAIN domains : domains'[j] = domains[j]
                           /\ domains'[k].verification_status = "Verified"
                           /\ domains'[k].enabled
                           /\ domains'[k].grace_period_ends = None
                           /\ domains'[k].discord = discord
                           /\ domains'[k].ip = ip
                           /\ db' = Database_add_domain(db, k, ip, discord)
                ELSE /\ domains' = domains
                     /\ db' = db
                     /\ lastOp'.call = "none"
                     /\ lastOp'.is_ok ]_vars

\* C22, its case: "a.t." was discovered from an answer with our nameservers:
\* a Verified record with the default mail address and a row of the store,
\* beside the record of a discovered name that contains "discord".
C22_Witness ==
    /\ lastOp.op = "discover"
    /\ lastOp.domain = Fqdn_a
    /\ lastOp.before = "Absent"
    /\ lastOp.outcome = "ok"
    /\ lastOp.call = "add_domain"
    /\ lastOp.is_ok
    /\ domains[Fqdn_a].verification_status = "Verified"
    /\ ~domains[Fqdn_a].discord
    /\ domains[Fqdn_a].ip = DefaultMailIp
    /\ Fqdn_a \in DOMAIN db
    /\ Name_discord \in DOMAIN domains
    /\ domains[Name_discord].nameservers # <<>>
    /\ domains[Name_discord].ip = DiscordMailIp

\* C29 as the specification states it: when the store's call fails during
\* add_domain or remove_domain, the operation reports an error and the
\* registry's map is as it was before the operation.
C29_StoreErrorPreservesMap ==
    [][ \A d \in InputNames :
          /\ (\E ip \in InputIps, discord \in BOOLEAN : AdminAdd(d, ip, discord, FALSE)) =>
                /\ ~lastOp'.is_ok
                /\ domains' = domains
          /\ (AdminRemove(d, FALSE) /\ to_lowercase(d) \in DOMAIN domains) =>
                /\ ~lastOp'.is_ok
                /\ domains' = domains ]_vars

\* The operations that end with a push (sync_to_supabase): the admin
\* operations and the sync loop.
PushStep == lastOp'.op \in {"add", "remove", "discover", "verify", "reload"}

C28_RemoteFailureNeverGates ==
    [][ /\ \A n \in 0..Len(supabase), calls \in 1..(Len(supabase) + 1) :
              (lastOp'.op = "restart" /\ Restart(n, calls)) =>
                  LET all == Booted(db, supabase, n, Len(supabase) + 1) IN
                  /\ db' = all.db
                  /\ domains' = all.domains
        /\ \A ip \in InputIps, discord \in BOOLEAN, store_ok \in BOOLEAN :
              AdminAdd(Name_a, ip, discord, store_ok) =>
                  LET r == add_domain(domains, db, Name_a, ip, discord, store_ok) IN
                  /\ db' = r.db
                  /\ domains' = r.domains
                  /\ lastOp'.is_ok = r.is_ok
        /\ \A store_ok \in BOOLEAN :
              AdminRemove(Name_a, store_ok) =>
                  LET r == remove_domain(domains, db, Name_a, store_ok) IN
                  /\ db' = r.db
                  /\ domains' = r.domains
                  /\ lastOp'.is_ok = r.is_ok ]_vars

\* The value of a Host header without its port.
RECURSIVE StripPort(_)
StripPort(s) ==
    IF s = <<>> \/ Head(s) = ":" THEN <<>>
    ELSE <<Head(s)>> \o StripPort(Tail(s))

\* C27 as the specification states it: the redirect server answers 301 with
\* Location = redirect_target and an empty body exactly when the request's
\* Host header value, lower-cased and without its port, is a key of the
\* registry, whatever the record's status or enabled flag; otherwise 404.
C27_RedirectByHostHeader ==
    [][ lastOp'.op = "redirect" =>
            LET host == to_lowercase(StripPort(lastOp'.http_request.host))
                response == lastOp'.http_response
            IN  IF host \in DOMAIN domains
                THEN /\ response.status = 301
                     /\ response.location = Some(redirect_target)
                     /\ response.body = ""
                ELSE response.status = 404 ]_vars

\* C30: a step of the responder (a question handled, a request answered at
\* once, a datagram dropped) and a step of the redirect server leave the
\* registry's map, the store and the remote table as they were, and call no
\* method of the store.
C30_FrontDoorsChangeNothing ==
    [][ lastOp'.op \in {"dns_query", "dns_reply", "dns_drop", "redirect"} =>
            /\ domains' = domains
            /\ db' = db
            /\ supabase' = supabase
            /\ lastOp'.call = "none" ]_vars

\* C30, its case: a request with a known host in its target has been
\* redirected while the registry held a Verified record, the store its
\* verified row and the remote a row patched to pending_ns_check = false.
C30_Witness ==
    /\ lastOp.op = "redirect"
    /\ lastOp.http = 301
    /\ lastOp.http_request.uri_host = Some(Name_A)
    /\ Name_a \in DOMAIN domains
    /\ domains[Name_a].verification_status = "Verified"
    /\ db[Name_a].verified
    /\ ~supabase[1].pending_ns_check
    /\ supabase[2].pending_ns_check

\* The records a reader of key k may see: the record as the verification of
\* k found it or as it leaves it, while one is under way; else the record.
Held(k) ==
    IF probe.pc \in {"assign", "store"} /\ probe.domain = k
    THEN {probe.before, probe.after}
    ELSE {domains[k]}

\* C23: the registry's lock is not held while a nameserver lookup or a store
\* call is in flight: whenever the verifier waits for a lookup's or the
\* store's answer, the lock is free.
C23_LockFreeDuringCalls ==
    probe.pc \in {"lookup", "store"} => lock = "free"

\* C24: a query or a redirect never reads a record that a verification has
\* half written: every record it can read is the record as it was before the
\* verification of its key began or as that verification leaves it.
C24_QueriesSeeWholeRecords ==
    [][lastOp'.op \in {"dns_query", "redirect"} =>
          \A k \in DOMAIN domains : domains[k] \in Held(k)]_vars

\* C24 witness: a message of two questions whose first question was answered
\* from the verified record and whose second, asked after a whole run of the
\* verifier, is refused.
C24_Witness ==
    /\ lastOp.op = "dns_query"
    /\ lastOp.query.query_type = "MX"
    /\ lastOp.code = "Refused"
    /\ lastOp.added = <<>>
    /\ lastOp.sent # NoDatagram
    /\ lastOp.sent.answers # <<>>
    /\ lastOp.domain \in DOMAIN domains
    /\ domains[lastOp.domain].verification_status \in {"GracePeriod", "FailedVerification"}

\* The question of message m at position i asks for a type the gate guards
\* and names a record of ds that may not be answered from.
AsksForClosed(ds, m, i) ==
    /\ m.queries[i].query_type \in {"A", "MX", "TXT", "NS"}
    /\ \E k \in Named(ds, m.queries[i].name) : ~gate_open(ds[k])

\* C31: the response sent for a message is REFUSED whenever one of its
\* questions, at any position, asks for A, MX, TXT or NS of a name whose
\* record exists and is not (enabled and Verified).
C31_RefusedAtAnyPosition ==
    [][ (lastOp'.op = "dns_query" /\ lastOp'.sent # NoDatagram) =>
            ( (\E i \in 1..Len(lastOp'.request.queries) :
                   AsksForClosed(domains, lastOp'.request, i))
                => lastOp'.sent.response_code = "Refused" ) ]_vars

\* The answers the response held before the step, and after it.
AnswersBefore == IF dns.pc = "query" THEN dns.response.answers ELSE <<>>
AnswersAfter ==
    IF lastOp'.sent # NoDatagram THEN lastOp'.sent.answers ELSE dns'.response.answers

\* C32: the questions of a message are handled in the order of the message,
\* and each question's answers are put behind the answers of the questions
\* before it: a question's step handles the question after the last one
\* handled, keeps the answers already there as they are, in front, and
\* adds behind them answers of the question's own type only.
C32_AnswersInQuestionOrder ==
    [][ (lastOp'.op = "dns_query" /\ lastOp'.is_ok) =>
            LET at == IF dns.pc = "query" THEN dns.qnext ELSE 1
                before == AnswersBefore
                after == AnswersAfter
            IN  /\ lastOp'.query = lastOp'.request.queries[at]
                /\ dns'.pc = "query" => dns'.qnext = at + 1 /\ dns'.request = lastOp'.request
                /\ Len(after) >= Len(before)
                /\ SubSeq(after, 1, Len(before)) = before
                /\ \A i \in (Len(before) + 1)..Len(after) :
                       after[i].rtype = lastOp'.query.query_type
                /\ lastOp'.added = SubSeq(after, Len(before) + 1, Len(after)) ]_vars

\* C32 witness: the response to a message of an A and an MX question is sent
\* with the A answer first and the two MX answers behind it.
C32_Witness ==
    /\ lastOp.op = "dns_query"
    /\ lastOp.sent # NoDatagram
    /\ Len(lastOp.request.queries) = 2
    /\ Len(lastOp.sent.answers) = 3
    /\ lastOp.sent.answers[1].rtype = "A"
    /\ lastOp.sent.answers[2].rtype = "MX"
    /\ lastOp.sent.answers[3].rtype = "MX"

\* C33: an A question whose name is an enabled Verified record and starts
\* with "mail." (or is "mail") gets a second A answer exactly when the
\* registry holds a record under base, the name with one leading "mail."
\* removed (the site domain for the bare "mail"); the second answer's
\* address is the Discord mail IP if base's record is a discord one and the
\* default mail IP otherwise.
C33_MailSecondAnswer ==
    [][ (QuestionStep("A") /\ SingleQuestion) =>
            LET qname == to_lowercase(to_ascii(lastOp'.query.name))
                found == get_domain(domains, qname)
                bare == qname \in {Wire_mail, to_ascii(Wire_mail)}
                base == IF bare
                        THEN <<"c", "y", "b", "e", "r", "t", "e", "m", "p", ".", "x", "y", "z">>
                        ELSE SubSeq(qname, 6, Len(qname))
                parent == get_domain(domains, base)
                added == lastOp'.added
            IN  ( /\ found # None
                  /\ gate_open(found[1])
                  /\ starts_with(qname, <<"m", "a", "i", "l", ".">>) \/ bare )
                    => /\ parent = None => Len(added) = 1
                       /\ parent # None =>
                              /\ Len(added) = 2
                              /\ added[2].rtype = "A"
                              /\ added[2].rdata = IF parent[1].discord
                                                  THEN DiscordMailIp ELSE DefaultMailIp ]_vars

\* C34: a record in its grace period is still served: an A question for a
\* name whose record is enabled, in GracePeriod and not past
\* grace_period_ends is answered NOERROR with the record's A answer.
C34_GraceIsServed ==
    [][ (QuestionStep("A") /\ SingleQuestion) =>
            \A k \in Named(domains, lastOp'.query.name) :
                ( /\ domains[k].enabled
                  /\ domains[k].verification_status = "GracePeriod"
                  /\ domains[k].grace_period_ends # None
                  /\ now <= domains[k].grace_period_ends[1] )
                    => /\ lastOp'.code = "NoError"
                       /\ lastOp'.added # <<>>
                       /\ lastOp'.added[1].rdata = domains[k].ip ]_vars

\* The step is one of a task that run starts: the responder, the redirect
\* server, the verifier or the sync loop.
TaskStep == lastOp'.op \notin {"main", "boot_pull", "boot_load"}

\* C35: the start is ordered.  A step of the responder, of the redirect
\* server, of the verifier or of the sync loop is taken only once run has
\* been reached; run is reached only from the load of the registry, and only
\* if the load succeeded, the registry then being the store's enabled rows;
\* the load comes only after the boot pull has returned, Ok or not; a load
\* that fails ends the process, and nothing but a new start follows.
C35_BootIsOrdered ==
    [][ /\ TaskStep => boot.pc = "run" /\ alive
        /\ (boot'.pc = "run" /\ boot.pc # "run") =>
               /\ boot.pc = "load"
               /\ lastOp'.op = "boot_load" /\ lastOp'.is_ok
               /\ domains' = load_from_database(EmptyMap, db, TRUE).domains
        /\ (boot'.pc = "load" /\ boot.pc # "load") =>
               /\ boot.pc = "pull"
               /\ lastOp'.op = "boot_pull"
        /\ (lastOp'.op = "boot_load" /\ ~lastOp'.is_ok) =>
               /\ boot'.pc = "exit"
               /\ ~alive'
        /\ boot.pc = "exit" => lastOp'.op = "main" ]_vars

\* C35 witness: a question is answered from the registry after a start whose
\* boot pull failed and whose load succeeded.
C35_Witness ==
    /\ lastOp.op = "dns_query"
    /\ lastOp.added # <<>>
    /\ boot.pc = "run"
    /\ ~boot.pull_ok

\* C36: if from some point on every probe finds our nameservers, then from
\* some point on every record of the registry is Verified and no question
\* is refused.
C36_OkProbesRestoreService ==
    <>[](lastOp.op = "verify" => lastOp.outcome = "ok")
        => <>[]( /\ \A k \in DOMAIN domains : domains[k].verification_status = "Verified"
                 /\ lastOp.op = "dns_query" => lastOp.code # "Refused" )

\* C37: while no operation holds the registry, every record's row in the
\* store has verified = true exactly if the record's status is Verified.
C37_StoreMirrorsStatus ==
    lock = "free" =>
        \A k \in DOMAIN domains \cap DOMAIN db :
            db[k].verified <=> domains[k].verification_status = "Verified"

\* C38: a row of the store that is disabled stays a disabled row, whatever
\* the step: add, discover, the boot pull of a start, a probe, the push and
\* the reload.
C38_DisabledRowsStayDisabled ==
    [][ \A k \in DOMAIN db :
            ~db[k].enabled => (k \in DOMAIN db' /\ ~db'[k].enabled) ]_vars

\* C38 witness: an add has succeeded for a name whose row was disabled, the
\* registry holds the name again, and the row is still disabled.
C38_Witness ==
    /\ lastOp.op = "add"
    /\ lastOp.is_ok
    /\ lastOp.domain \in DOMAIN domains
    /\ lastOp.domain \in DOMAIN db
    /\ ~db[lastOp.domain].enabled

\* C39: a name that a remove took out of the registry (no entry, and its
\* row disabled) comes back into the registry only by the step of an add or
\* of a discover: not by a reload with its push, not by a probe, not by a
\* start with its boot pull.
C39_RemovedStaysOut ==
    [][ \A k \in DOMAIN db :
            ( /\ ~db[k].enabled
              /\ k \notin DOMAIN domains
              /\ k \in DOMAIN domains' )
                => lastOp'.op \in {"add", "discover"} ]_vars

\* C39 witness: the sync loop has pushed and reloaded, the store answering,
\* while a removed name's row lies disabled in the store, and the registry
\* does not hold the name.
C39_Witness ==
    /\ lastOp.op = "reload"
    /\ lastOp.is_ok
    /\ \E k \in DOMAIN db : ~db[k].enabled /\ k \notin DOMAIN domains

\* C40: the lock does not deadlock.  Every task that waits for the lock
\* comes to hold its guard, and no task waits for the lock while it holds a
\* guard.
C40_EveryRequestIsServed ==
    /\ \A task \in Tasks : Waiting(task) ~> Holding(task)
    /\ [](\A task \in Tasks : Waiting(task) => ~Holding(task))

\* C40 witness: the redirect server reads, the verifier waits for it with
\* its write request, and behind the verifier wait the responder, the
\* admin's operation and the sync loop.
C40_Witness ==
    /\ rw.readers["redirect"] > 0
    /\ Len(rw.queue) >= 4
    /\ rw.queue[1] = <<"verifier", "write">>
    /\ Waiting("responder")
    /\ Waiting("admin")
    /\ Waiting("sync")

====
